---- MODULE Spec2Model ----
(***************************************************************************)
(* Model of the domain tray widget of qui/tray/domains.py: the menu of      *)
(* domain entries (DomainTray.tray_menu), the registry of entries           *)
(* (DomainTray.menu_items) and the event handlers that reconcile them with  *)
(* the live domain set of the management API (qapp.domains).                *)
(*                                                                         *)
(* A handler is a pure operator from the tray (menu, items and the ghost    *)
(* fields raised/queries) and the environment of the call to the tray      *)
(* after the call; an action of the state machine applies one handler.      *)
(***************************************************************************)
EXTENDS Integers, Sequences, FiniteSets, TLC

\* ------------------------------------------------------------------------
\* Bounds of the model
\* ------------------------------------------------------------------------
\* number of domain identities that may exist (1 is the AdminVM)
NumDomains == 3
\* the same, in the behaviours with templates and their dependents
NumTemplateDomains == 4
\* number of events and environment changes in one behaviour
MaxSteps == 2
\* the same, in the behaviours that only create, add, delete and resync
MaxOrderSteps == 4
\* the same, in the behaviours of whole event dispatches
MaxPauseSteps == 3
\* the same, in the behaviours with key events
MaxShiftSteps == 3
\* the same, in the behaviours with events of every kind
MaxEventSteps == 2
\* the same, in the behaviours with templates and their dependents
MaxTemplateSteps == 2
\* number of dispatched events in the behaviours with the tooltip timer
MaxTimerSteps == 1
\* number of events in the behaviours with a shutdown of the application
MaxShutdownSteps == 2
\* number of activations and answers in the behaviours with the shutdown and
\* restart actions of a submenu
MaxActionSteps == 4
\* number of events that arrive in the behaviours with a queue of events
MaxQueueSteps == 3
\* number of qubes a device may be attached to, and of actions of the
\* device widgets
NumDeviceVMs == 3
MaxDeviceSteps == 3

Domains == 1..NumDomains
TemplateDomains == 1..NumTemplateDomains
\* every identity of the model
AllDomains == Domains \cup TemplateDomains

\* ------------------------------------------------------------------------
\* Domains as the management API presents them
\* ------------------------------------------------------------------------
\* vm.klass: identity 1 is the AdminVM (dom0), identity 2 a TemplateVM, the
\* rest are ordinary qubes
klass(d) == IF d = 1 THEN "AdminVM" ELSE IF d = 2 THEN "TemplateVM" ELSE "AppVM"

\* vm.name, a string, as the sequence of its characters' code points.
\* Identity order and name order differ: 3 < 2 < 1 < 5 < 4 by name.
name(d) ==
    IF d = 1 THEN <<2, 2>>
    ELSE IF d % 2 = 0 THEN <<(d \div 2) + 1>>
    ELSE <<(d - 1) \div 2, d>>

\* Python's a < b on strings: lexicographic by code point, a proper prefix
\* is smaller
RECURSIVE StrLess(_, _)
StrLess(a, b) ==
    IF a = <<>> THEN b # <<>>
    ELSE IF b = <<>> THEN FALSE
    ELSE IF Head(a) < Head(b) THEN TRUE
    ELSE IF Head(a) > Head(b) THEN FALSE
    ELSE StrLess(Tail(a), Tail(b))

PowerStates == {"Transient", "Running", "Halted", "Paused", "Crashed"}

\* the table with two of its values exchanged
STATE_DICTIONARY_swapped ==
    [k \in {"domain-pre-start", "domain-start", "domain-start-failed",
            "domain-paused", "domain-unpaused", "domain-shutdown",
            "domain-pre-shutdown", "domain-shutdown-failed"} |->
        CASE k = "domain-pre-start" -> "Transient"
          [] k = "domain-start" -> "Running"
          [] k = "domain-start-failed" -> "Running"
          [] k = "domain-paused" -> "Paused"
          [] k = "domain-unpaused" -> "Running"
          [] k = "domain-shutdown" -> "Halted"
          [] k = "domain-pre-shutdown" -> "Transient"
          [] k = "domain-shutdown-failed" -> "Halted"]

STATE_DICTIONARY ==
    [k \in {"domain-pre-start", "domain-start", "domain-start-failed",
            "domain-paused", "domain-unpaused", "domain-shutdown",
            "domain-pre-shutdown", "domain-shutdown-failed"} |->
        CASE k = "domain-pre-start" -> "Transient"
          [] k = "domain-start" -> "Running"
          [] k = "domain-start-failed" -> "Halted"
          [] k = "domain-paused" -> "Paused"
          [] k = "domain-unpaused" -> "Running"
          [] k = "domain-shutdown" -> "Halted"
          [] k = "domain-pre-shutdown" -> "Transient"
          [] k = "domain-shutdown-failed" -> "Running"]

\* the kinds register_events routes to update_domain_item
TableKinds == DOMAIN STATE_DICTIONARY
InternalKinds == {"domain-feature-set:internal", "domain-feature-delete:internal"}
UpdateKinds == TableKinds \cup InternalKinds

\* Python's None as an event argument
NoneEvent == "None"

\* every event but domain-add taken for a manual creation
Falsy_but_add(event) == event # "domain-add"

\* "not event": None and the empty string are falsy
Falsy(event) == event \in {NoneEvent, ""}

\* ------------------------------------------------------------------------
\* Widgets of the menu
\* ------------------------------------------------------------------------
\* The children of tray_menu: the header (DomainMenuItem with vm None), a
\* domain's entry (named by its identity), the separator and the Qube
\* Manager item.
Header == 0
Separator == 0 - 1
QubesManagerItem == 0 - 2

\* result of a failed query
Raise == "raise"

\* the fallbacks of the two handlers exchanged
add_fallback_state_transient == "Transient"
update_fallback_state_halted == "Halted"

\* add_domain_item, when the power state of a live domain cannot be read:
\* "or we might not have permission to access its power state"
add_fallback_state == "Halted"

\* update_domain_item, when the power state cannot be read for any reason:
\* "it's a fragile DispVM"
update_fallback_state == "Transient"

\* vm.get_power_state(): fails when the domain is gone or access is denied.
\* env.gone are the domains destroyed while the handler runs, after its
\* first lookup in qapp.domains.
get_power_state(env, vm) ==
    IF vm \notin (env.live \ env.gone) \/ vm \in env.denied
    THEN Raise
    ELSE env.power[vm]

\* vm.is_running() of the management API: every power state but Halted
is_running(env, vm) ==
    IF get_power_state(env, vm) = Raise THEN Raise
    ELSE IF get_power_state(env, vm) # "Halted" THEN "True" ELSE "False"

\* ------------------------------------------------------------------------
\* DomainMenuItem
\* ------------------------------------------------------------------------
\* An entry is [state, visible, submenu, outdated]: state is the power state
\* the entry last received (by its constructor or by update_state), visible
\* is the widget's visibility (show_all()/hide()), submenu is the action set
\* of the entry: its kind and the variants of its RunTerminalItem,
\* ShutdownItem and RestartItem ("absent" when the submenu has no such
\* item), outdated is the indicator that name.update_outdated() sets.
NoSubmenu ==
    [kind |-> "None", terminal |-> "absent", shutdown |-> "absent",
     restart |-> "absent"]

\* as_root / force of an action item
Variant(flag) == IF flag THEN "modified" ELSE "plain"

\* StartedMenu.__init__: the items read app.shift_pressed
StartedMenu(app) ==
    [kind |-> "Started", terminal |-> Variant(app.shift_pressed),
     shutdown |-> Variant(app.shift_pressed),
     restart |-> Variant(app.shift_pressed)]

\* InternalMenu.__init__: ShutdownItem(self.vm, icon_cache), force left at
\* its default, when working_correctly; a KillItem otherwise
InternalMenu(working_correctly) ==
    [kind |-> "Internal", terminal |-> "absent",
     shutdown |-> IF working_correctly THEN Variant(FALSE) ELSE "absent",
     restart |-> "absent"]

PausedMenu == [NoSubmenu EXCEPT !.kind = "Paused"]

DebugMenu == [NoSubmenu EXCEPT !.kind = "Debug"]

\* DomainMenuItem._set_submenu
set_submenu(app, item, env, vm, state) ==
    [item EXCEPT !.submenu =
        IF vm \in env.internal THEN InternalMenu(state = "Running")
        ELSE IF state = "Running" THEN StartedMenu(app)
        ELSE IF state = "Paused" THEN PausedMenu
        ELSE DebugMenu]

\* update_state without the test for Halted
update_state_never_hides(app, item, env, vm, state) ==
    LET vm_klass == IF vm \in env.noklass THEN "None" ELSE klass(vm)
        got == [item EXCEPT !.state = state]
    IN  IF vm_klass = "AdminVM" THEN got
        ELSE IF vm_klass = "None" THEN set_submenu(app, got, env, vm, state)
        ELSE set_submenu(app, [got EXCEPT !.visible = TRUE], env, vm, state)

\* DomainMenuItem.update_state
update_state(app, item, env, vm, state) ==
    LET vm_klass == IF vm \in env.noklass THEN "None" ELSE klass(vm)
        got == [item EXCEPT !.state = state]
    IN  IF vm_klass = "AdminVM" THEN got            \* header or AdminVM: return
        ELSE IF vm_klass = "None"                   \* fragile DispVM: submenu only
        THEN set_submenu(app, got, env, vm, state)
        ELSE IF state = "Halted" THEN [got EXCEPT !.visible = FALSE]
        ELSE set_submenu(app, [got EXCEPT !.visible = TRUE], env, vm, state)

\* DomainMenuItem.__init__ reads vm.klass without a default: it raises
\* when the class cannot be read
DomainMenuItem_raises(env, vm) == vm \in env.noklass

\* DomainMenuItem.__init__ for a domain (vm is not None) whose class can be
\* read; state is always given by add_domain_item. A new widget is not
\* visible.
DomainMenuItem(app, env, vm, state) ==
    LET fresh == [state |-> state, visible |-> FALSE, submenu |-> NoSubmenu,
                  outdated |-> FALSE]
    IN  IF klass(vm) = "AdminVM" THEN fresh
        ELSE update_state(app, fresh, env, vm, state)

\* ------------------------------------------------------------------------
\* DomainTray
\* ------------------------------------------------------------------------
\* The tray is [menu, items, keys, shift_pressed, pause_notification_out,
\* outstanding, raised, queries, effects]: menu is tray_menu's children in
\* order, items is menu_items and keys its keys in the order the dict
\* iterates them (the order of insertion), outstanding counts the
\* "vms-paused" notifications sent and not withdrawn, raised tells that the
\* handler ended by an exception, queries counts the handler's calls of
\* get_power_state for the state of an entry, effects are the other things
\* the handler did.

\* what a handler run did: "vms-paused" notifications sent and withdrawn,
\* runs of check_pause_notify, reconfiguration passes of the shift_pressed
\* setter, the domains whose unpause() was called, the status notifications
\* sent (each [event, priority], in order), the entries whose outdated
\* indicator was set, the parts of entries that were redrawn (each
\* <<vm, part>>), the entries whose tooltip was recomputed by
\* refresh_tooltips, with those for which it failed, and the keyword
\* arguments the handler looked up and the event lacked
NoEffects ==
    [emitted |-> 0, withdrawn |-> 0, rechecks |-> 0, passes |-> 0,
     attempted |-> {}, status |-> <<>>, marked |-> {}, redrawn |-> {},
     recomputed |-> {}, failed |-> {}, missing |-> {}]

\* Gtk.Menu.insert(child, position), position counted from 0
MenuInsert(menu, w, position) ==
    SubSeq(menu, 1, position) \o <<w>> \o SubSeq(menu, position + 1, Len(menu))

\* Gtk.Menu.remove(child)
MenuRemove(menu, w) == SelectSeq(menu, LAMBDA x : x # w)

\* the scan of add_domain_item for the position of a new entry, from the
\* i-th child on; -1 when i.vm.klass cannot be read (the scan raises)
RECURSIVE find_position(_, _, _, _)
find_position(menu, i, env, vm) ==
    IF i > Len(menu) THEN i - 1
    ELSE IF menu[i] \in {Separator, QubesManagerItem} THEN i - 1  \* no "vm"
    ELSE IF menu[i] = Header THEN find_position(menu, i + 1, env, vm)
    ELSE IF menu[i] \in env.noklass THEN 0 - 1
    ELSE IF klass(menu[i]) = "AdminVM" THEN find_position(menu, i + 1, env, vm)
    ELSE IF StrLess(name(vm), name(menu[i])) THEN i - 1
    ELSE find_position(menu, i + 1, env, vm)

\* the lookup without its KeyError
lookup_always_succeeds(env, vm) == TRUE

\* self.qapp.domains[str(vm)] of add_domain_item: FALSE for the KeyError
lookup_domain(env, vm) == vm \in env.live

\* add_domain_item without its test of vm in self.menu_items
add_domain_item_again(t, env, event, vm) ==
    IF ~lookup_domain(env, vm) THEN t                     \* KeyError: return
    ELSE
      LET inTable == event \in DOMAIN STATE_DICTIONARY
          q == get_power_state(env, vm)
          t1 == IF inTable THEN t ELSE [t EXCEPT !.queries = @ + 1]
          state == IF inTable THEN STATE_DICTIONARY[event]
                   ELSE IF q = Raise THEN add_fallback_state
                   ELSE q
          domain_item == DomainMenuItem(t, env, vm, state)
          position == find_position(t.menu, 1, env, vm)
      IN  IF ~inTable /\ q = Raise /\ vm \notin (env.live \ env.gone)
          THEN t1                                     \* already destroyed
          ELSE IF DomainMenuItem_raises(env, vm) THEN [t1 EXCEPT !.raised = TRUE]
          ELSE IF Falsy(event)
          THEN [t1 EXCEPT !.menu = Append(@, vm),
                          !.items = [x \in DOMAIN @ \cup {vm} |->
                                       IF x = vm THEN domain_item ELSE @[x]],
                          !.keys = Append(@, vm)]
          ELSE IF position < 0 THEN [t1 EXCEPT !.raised = TRUE]
          ELSE [t1 EXCEPT !.menu = MenuInsert(@, vm, position),
                          !.items = [x \in DOMAIN @ \cup {vm} |->
                                       IF x = vm THEN domain_item ELSE @[x]],
                          !.keys = Append(@, vm)]

\* DomainTray.add_domain_item
add_domain_item(t, env, event, vm) ==
    IF ~lookup_domain(env, vm) THEN t                     \* KeyError: return
    ELSE IF vm \in DOMAIN t.items THEN t
    ELSE
      LET inTable == event \in DOMAIN STATE_DICTIONARY
          q == get_power_state(env, vm)
          t1 == IF inTable THEN t ELSE [t EXCEPT !.queries = @ + 1]
          state == IF inTable THEN STATE_DICTIONARY[event]
                   ELSE IF q = Raise THEN add_fallback_state
                   ELSE q
          domain_item == DomainMenuItem(t, env, vm, state)
          position == find_position(t.menu, 1, env, vm)
      IN  IF ~inTable /\ q = Raise /\ vm \notin (env.live \ env.gone)
          THEN t1                                     \* already destroyed
          ELSE IF DomainMenuItem_raises(env, vm) THEN [t1 EXCEPT !.raised = TRUE]
          ELSE IF Falsy(event)
          THEN [t1 EXCEPT !.menu = Append(@, vm),
                          !.items = [x \in DOMAIN @ \cup {vm} |->
                                       IF x = vm THEN domain_item ELSE @[x]],
                          !.keys = Append(@, vm)]
          ELSE IF position < 0 THEN [t1 EXCEPT !.raised = TRUE]
          ELSE [t1 EXCEPT !.menu = MenuInsert(@, vm, position),
                          !.items = [x \in DOMAIN @ \cup {vm} |->
                                       IF x = vm THEN domain_item ELSE @[x]],
                          !.keys = Append(@, vm)]

\* remove_domain_item without its first test: menu_items[vm] raises KeyError
remove_domain_item_unguarded(t, vm) ==
    IF vm \notin DOMAIN t.items THEN [t EXCEPT !.raised = TRUE]
    ELSE [t EXCEPT !.menu = MenuRemove(@, vm),
                   !.items = [x \in DOMAIN @ \ {vm} |-> @[x]],
                   !.keys = SelectSeq(@, LAMBDA x : x # vm)]

\* remove_domain_item without tray_menu.remove: the widget stays in the menu
remove_domain_item_keeping_widget(t, vm) ==
    IF vm \notin DOMAIN t.items THEN t
    ELSE [t EXCEPT !.items = [x \in DOMAIN @ \ {vm} |-> @[x]],
                   !.keys = SelectSeq(@, LAMBDA x : x # vm)]

\* DomainTray.remove_domain_item
remove_domain_item(t, vm) ==
    IF vm \notin DOMAIN t.items THEN t
    ELSE [t EXCEPT !.menu = MenuRemove(@, vm),
                   !.items = [x \in DOMAIN @ \ {vm} |-> @[x]],
                   !.keys = SelectSeq(@, LAMBDA x : x # vm)]

\* getattr(vm, "template", None): 0 for None. A domain without the
\* property, or one whose property may not be read, gives the default.
template_of(env, vm) ==
    IF vm = 0 \/ vm \in env.denied THEN 0 ELSE env.template[vm]

\* the loop of handle_domain_shutdown over menu_items.values(), from the
\* i-th entry on. is_running() of an entry whose domain is destroyed raises
\* QubesVMNotFoundError, which only the handler of the whole scan catches:
\* the scan ends there; a denied is_running() raises
\* QubesPropertyAccessError and the entry is skipped.
RECURSIVE outdated_scan(_, _, _, _)
outdated_scan(t, env, vm, i) ==
    IF i > Len(t.keys) THEN t
    ELSE LET e == t.keys[i]
             template1 == template_of(env, e)
             template2 == template_of(env, template1)
         IN  IF e \notin (env.live \ env.gone) THEN t
             ELSE IF e \in env.denied THEN outdated_scan(t, env, vm, i + 1)
             ELSE IF is_running(env, e) # "True"
             THEN outdated_scan(t, env, vm, i + 1)
             ELSE IF vm \in {template1, template2} /\ e \in env.outdated
             THEN outdated_scan([t EXCEPT !.items[e].outdated = TRUE,
                                          !.effects.marked = @ \cup {e}],
                                env, vm, i + 1)
             ELSE outdated_scan(t, env, vm, i + 1)

\* DomainTray.handle_domain_shutdown. vm.klass is read from the cache of
\* the domain object (None when it cannot be read); template_for_dispvms
\* is read from the daemon when the class is not TemplateVM: the AdminVM
\* lacks it (the default), and for a destroyed domain the read raises
\* QubesVMNotFoundError, which ends the handler.
handle_domain_shutdown(t, env, vm) ==
    IF vm \notin env.noklass /\ klass(vm) = "TemplateVM"
    THEN outdated_scan(t, env, vm, 1)
    ELSE IF klass(vm) = "AdminVM" \/ vm \in env.denied THEN t
    ELSE IF vm \notin (env.live \ env.gone) THEN t
    ELSE IF vm \in env.template_for_dispvms THEN outdated_scan(t, env, vm, 1)
    ELSE t

\* apply_update that leaves the outdated indicator of a started domain
apply_update_keeping_outdated(t, env, vm, event) ==
    LET inTable == event \in DOMAIN STATE_DICTIONARY
        q == get_power_state(env, vm)
        state == IF inTable THEN STATE_DICTIONARY[event]
                 ELSE IF q = Raise THEN update_fallback_state
                 ELSE q
        updated == [t EXCEPT !.items[vm] = update_state(t, @, env, vm, state),
                             !.queries = IF inTable THEN @ ELSE @ + 1]
        shutdown == IF event = "domain-shutdown"
                    THEN [handle_domain_shutdown(updated, env, vm)
                             EXCEPT !.items[vm].outdated = FALSE]
                    ELSE updated
        started == IF event \in {"domain-start", "domain-pre-start"}
                   THEN [shutdown EXCEPT !.items[vm].visible = TRUE]
                   ELSE shutdown
    IN  IF event = "domain-shutdown"
        THEN [started EXCEPT !.items[vm].visible = FALSE]
        ELSE started

\* the part of update_domain_item after the entry is found: resolve the
\* state, update the entry, then the effects keyed by the event kind
apply_update(t, env, vm, event) ==
    LET inTable == event \in DOMAIN STATE_DICTIONARY
        q == get_power_state(env, vm)
        state == IF inTable THEN STATE_DICTIONARY[event]
                 ELSE IF q = Raise THEN update_fallback_state
                 ELSE q
        updated == [t EXCEPT !.items[vm] = update_state(t, @, env, vm, state),
                             !.queries = IF inTable THEN @ ELSE @ + 1]
        shutdown == IF event = "domain-shutdown"
                    THEN [handle_domain_shutdown(updated, env, vm)
                             EXCEPT !.items[vm].outdated = FALSE]
                    ELSE updated
        started == IF event \in {"domain-start", "domain-pre-start"}
                   THEN [shutdown EXCEPT !.items[vm].outdated = FALSE,
                                         !.items[vm].visible = TRUE]
                   ELSE shutdown
    IN  IF event = "domain-shutdown"
        THEN [started EXCEPT !.items[vm].visible = FALSE]
        ELSE started

\* DomainTray.update_domain_item. lookupFails: self.menu_items[vm] raises
\* QubesPropertyAccessError; the handler then calls
\* remove_domain_item(vm, event, **kwargs), which binds vm and event to
\* _submitter and _event and lacks the argument vm: a TypeError.
update_domain_item(t, env, vm, event, lookupFails) ==
    IF lookupFails THEN [t EXCEPT !.raised = TRUE]
    ELSE IF vm \in DOMAIN t.items THEN apply_update(t, env, vm, event)
    ELSE
      LET added == add_domain_item(t, env, event, vm)
      IN  IF added.raised THEN added
          ELSE IF vm \notin DOMAIN added.items THEN added
          ELSE apply_update(added, env, vm, event)

\* iteration of qapp.domains, and sorted() of domains: ascending by name
RECURSIVE sorted(_)
sorted(S) ==
    IF S = {} THEN <<>>
    ELSE LET first == CHOOSE x \in S : \A y \in S \ {x} : StrLess(name(x), name(y))
         IN  <<first>> \o sorted(S \ {first})

\* the last loop of refresh_all: update_domain_item(vm, "") for the domains
\* of the sequence vms from the i-th on; an exception ends the loop
RECURSIVE refresh_updates(_, _, _, _)
refresh_updates(t, env, vms, i) ==
    IF i > Len(vms) \/ t.raised THEN t
    ELSE refresh_updates(update_domain_item(t, env, vms[i], "", FALSE), env, vms, i + 1)

\* the removals of refresh_all: every entry whose domain is not live
RECURSIVE refresh_removals(_, _)
refresh_removals(t, items_to_delete) ==
    IF items_to_delete = {} THEN t
    ELSE LET vm == CHOOSE x \in items_to_delete : TRUE
         IN  refresh_removals(remove_domain_item(t, vm), items_to_delete \ {vm})

\* DomainTray.refresh_all
refresh_all(t, env) ==
    LET items_to_delete == {vm \in DOMAIN t.items : vm \notin env.live}
    IN  refresh_updates(refresh_removals(t, items_to_delete), env, sorted(env.live), 1)

\* the creation loops of initialize_menu: add_domain_item(None, None, vm)
RECURSIVE initial_adds(_, _, _, _)
initial_adds(t, env, vms, i) ==
    IF i > Len(vms) \/ t.raised THEN t
    ELSE initial_adds(add_domain_item(t, env, NoneEvent, vms[i]), env, vms, i + 1)

\* the visibility pass of initialize_menu over menu_items
initial_visibility(t, env) ==
    [t EXCEPT !.items = [vm \in DOMAIN @ |->
        [@[vm] EXCEPT !.visible = (is_running(env, vm) = "True")]]]

\* DomainTray.initialize_menu, on the tray as __init__ leaves it
initialize_menu(env) ==
    LET empty == [menu |-> <<Header>>, items |-> <<>>, keys |-> <<>>,
                  shift_pressed |-> FALSE,
                  pause_notification_out |-> FALSE, outstanding |-> 0,
                  raised |-> FALSE, queries |-> 0, effects |-> NoEffects]
        admins == initial_adds(empty, env,
                      sorted({vm \in env.live : klass(vm) = "AdminVM"}), 1)
        rest == initial_adds(admins, env,
                      sorted({vm \in env.live : klass(vm) # "AdminVM"}), 1)
        shown == initial_visibility(rest, env)
    IN  [shown EXCEPT !.menu = @ \o <<Separator, QubesManagerItem>>]

\* ------------------------------------------------------------------------
\* The "all paused" notification
\* ------------------------------------------------------------------------
\* vm.is_paused() of the management API
is_paused(env, vm) ==
    IF get_power_state(env, vm) = Raise THEN Raise
    ELSE IF get_power_state(env, vm) = "Paused" THEN "True" ELSE "False"

\* getattr(vm, "is_preload", False)
is_preload(env, vm) == vm \in env.preload

\* the loop of have_running_and_all_are_paused from the i-th domain on;
\* vm.klass, vm.is_running() and vm.is_paused() may raise
RECURSIVE paused_scan(_, _, _, _)
paused_scan(env, vms, i, found_paused) ==
    IF i > Len(vms) THEN (IF found_paused THEN "True" ELSE "False")
    ELSE LET vm == vms[i]
         IN  IF vm \in env.noklass THEN Raise
             ELSE IF klass(vm) = "AdminVM" \/ is_preload(env, vm)
             THEN paused_scan(env, vms, i + 1, found_paused)
             ELSE IF is_running(env, vm) = Raise THEN Raise
             ELSE IF is_running(env, vm) = "True" /\ is_paused(env, vm) = "True"
             THEN paused_scan(env, vms, i + 1, TRUE)
             ELSE "False"

\* DomainTray.have_running_and_all_are_paused
have_running_and_all_are_paused(env) == paused_scan(env, sorted(env.live), 1, FALSE)

\* emit_paused_notification without the test of the latch
emit_paused_notification_unlatched(t) ==
    [t EXCEPT !.outstanding = @ + 1,
              !.effects.emitted = @ + 1,
              !.pause_notification_out = TRUE]

\* DomainTray.emit_paused_notification
emit_paused_notification(t) ==
    IF ~t.pause_notification_out
    THEN [t EXCEPT !.outstanding = @ + 1,
                   !.effects.emitted = @ + 1,
                   !.pause_notification_out = TRUE]
    ELSE t

\* withdraw_paused_notification that leaves the latch set
withdraw_paused_notification_keeps_latch(t) ==
    IF t.pause_notification_out
    THEN [t EXCEPT !.outstanding = 0,
                   !.effects.withdrawn = @ + 1]
    ELSE t

\* DomainTray.withdraw_paused_notification
withdraw_paused_notification(t) ==
    IF t.pause_notification_out
    THEN [t EXCEPT !.outstanding = 0,
                   !.effects.withdrawn = @ + 1,
                   !.pause_notification_out = FALSE]
    ELSE t

\* DomainTray.check_pause_notify
check_pause_notify(t, env) ==
    LET all_paused == have_running_and_all_are_paused(env)
        t1 == [t EXCEPT !.effects.rechecks = @ + 1]
    IN  IF all_paused = Raise THEN [t1 EXCEPT !.raised = TRUE]
        ELSE IF all_paused = "True" THEN emit_paused_notification(t1)
        ELSE withdraw_paused_notification(t1)

\* every kind of event registered for check_pause_notify
RecheckKinds_all ==
    DOMAIN STATE_DICTIONARY \cup {"domain-add", "domain-delete"}

\* the kinds of event register_events binds to check_pause_notify
RecheckKinds ==
    {"domain-start", "domain-paused", "domain-unpaused", "domain-shutdown"}

\* ------------------------------------------------------------------------
\* Status notifications, property and feature events
\* ------------------------------------------------------------------------
\* the kinds of event register_events binds to emit_notification
NotifiedKinds ==
    {"domain-pre-start", "domain-start", "domain-start-failed",
     "domain-pre-shutdown", "domain-shutdown", "domain-shutdown-failed",
     "domain-preload-dispvm-used"}

\* emit_notification that leaves every notification at its first priority
emit_notification_normal(t, vm, event, kwargs) ==
    IF event = "domain-preload-dispvm-used" /\ "dispvm" \notin kwargs
    THEN [t EXCEPT !.raised = TRUE, !.effects.missing = @ \cup {"dispvm"}]
    ELSE IF event \in {"domain-start-failed", "domain-shutdown-failed"}
    THEN IF "reason" \notin kwargs
         THEN [t EXCEPT !.raised = TRUE, !.effects.missing = @ \cup {"reason"}]
         ELSE [t EXCEPT !.effects.status =
                           Append(@, [event |-> event, priority |-> "NORMAL"])]
    ELSE IF event \in {"domain-pre-start", "domain-start",
                       "domain-preload-dispvm-used", "domain-pre-shutdown",
                       "domain-shutdown"}
    THEN [t EXCEPT !.effects.status =
                      Append(@, [event |-> event, priority |-> "NORMAL"])]
    ELSE t

\* DomainTray.emit_notification. kwargs are the names of the keyword
\* arguments the event carries: kwargs["dispvm"] and kwargs["reason"] raise
\* KeyError when the event lacks them. The notification is sent by
\* send_notification(None, notification).
emit_notification(t, vm, event, kwargs) ==
    IF event = "domain-preload-dispvm-used" /\ "dispvm" \notin kwargs
    THEN [t EXCEPT !.raised = TRUE, !.effects.missing = @ \cup {"dispvm"}]
    ELSE IF event \in {"domain-start-failed", "domain-shutdown-failed"}
    THEN IF "reason" \notin kwargs
         THEN [t EXCEPT !.raised = TRUE, !.effects.missing = @ \cup {"reason"}]
         ELSE [t EXCEPT !.effects.status =
                           Append(@, [event |-> event, priority |-> "HIGH"])]
    ELSE IF event \in {"domain-pre-start", "domain-start",
                       "domain-preload-dispvm-used", "domain-pre-shutdown",
                       "domain-shutdown"}
    THEN [t EXCEPT !.effects.status =
                      Append(@, [event |-> event, priority |-> "NORMAL"])]
    ELSE t

\* the kinds of event register_events binds to property_change,
\* feature_change and debug_change, and the kind of the stats dispatcher
PropertyKinds == {"property-set:netvm", "property-set:label"}
FeatureKinds ==
    {"domain-feature-set:updates-available",
     "domain-feature-delete:updates-available"}
DebugKinds ==
    {"property-set:debug", "property-set:guivm", "domain-feature-set:gui",
     "domain-feature-delete:gui", "domain-feature-set:expert-mode",
     "domain-feature-delete:expert-mode"}
StatsKinds == {"vm-stats"}

\* property_change that hides the entry whose label changed
property_change_hiding(t, vm, event) ==
    IF vm \notin DOMAIN t.items THEN t
    ELSE IF event = "property-set:netvm"
    THEN [t EXCEPT !.effects.redrawn = @ \cup {<<vm, "tooltip">>}]
    ELSE IF event = "property-set:label"
    THEN [t EXCEPT !.effects.redrawn = @ \cup {<<vm, "label">>},
                   !.items[vm].visible = FALSE]
    ELSE t

\* DomainTray.property_change: the tooltip or the label icon is redrawn
property_change(t, vm, event) ==
    IF vm \notin DOMAIN t.items THEN t
    ELSE IF event = "property-set:netvm"
    THEN [t EXCEPT !.effects.redrawn = @ \cup {<<vm, "tooltip">>}]
    ELSE IF event = "property-set:label"
    THEN [t EXCEPT !.effects.redrawn = @ \cup {<<vm, "label">>}]
    ELSE t

\* DomainTray.feature_change: name.update_updateable()
feature_change(t, vm) ==
    IF vm \notin DOMAIN t.items THEN t
    ELSE [t EXCEPT !.effects.redrawn = @ \cup {<<vm, "updateable">>}]

\* DomainTray.debug_change. vm == self.qapp.local_name holds for the
\* AdminVM: expert_mode is read again and every entry is visited;
\* otherwise self.menu_items[vm] is taken with no test before it, a
\* KeyError when vm has no entry. debug_console_update() is called on the
\* StartedMenu submenus.
debug_change(t, vm) ==
    LET vms == IF klass(vm) = "AdminVM" THEN DOMAIN t.items ELSE {vm}
        read == IF klass(vm) = "AdminVM" THEN {<<vm, "expert_mode">>} ELSE {}
    IN  IF \E menu \in vms : menu \notin DOMAIN t.items
        THEN [t EXCEPT !.raised = TRUE]
        ELSE [t EXCEPT !.effects.redrawn =
                 @ \cup read \cup
                 {<<menu, "debug_console">> : menu \in
                     {x \in vms : t.items[x].submenu.kind = "Started"}}]

\* DomainTray.update_stats: kwargs["memory_kb"] and kwargs["cpu_usage"]
\* are read after the test
update_stats(t, vm, kwargs) ==
    IF vm \notin DOMAIN t.items THEN t
    ELSE IF ~({"memory_kb", "cpu_usage"} \subseteq kwargs)
    THEN [t EXCEPT !.raised = TRUE,
                   !.effects.missing = @ \cup ({"memory_kb", "cpu_usage"} \ kwargs)]
    ELSE [t EXCEPT !.effects.redrawn = @ \cup {<<vm, "stats">>}]

\* refresh_tooltips whose loop ends at the first failure
refresh_tooltips_aborting(t, failing) ==
    LET shown(i) == t.items[t.keys[i]].visible
        reached == {i \in 1..Len(t.keys) :
                       /\ shown(i)
                       /\ \A j \in 1..(i - 1) :
                             ~(shown(j) /\ t.keys[j] \in failing)}
        recomputed == {t.keys[i] : i \in reached}
    IN  [t EXCEPT !.effects.recomputed = recomputed,
                  !.effects.failed = recomputed \cap failing]

\* DomainTray.refresh_tooltips: name.update_tooltip(storage_changed=True)
\* is called for every entry of menu_items that is visible; failing are
\* the domains for which the call raises, which is caught for each entry
refresh_tooltips(t, failing) ==
    LET recomputed == {vm \in DOMAIN t.items : t.items[vm].visible}
    IN  [t EXCEPT !.effects.recomputed = recomputed,
                  !.effects.failed = recomputed \cap failing]

\* the value refresh_tooltips returns: its body ends without a return
refresh_tooltips_returns == "None"

\* GLib.timeout_add_seconds(120, callback): the source stays installed
\* when the callback returns a true value and is removed otherwise
source_continues(returned) == returned = "True"

\* ------------------------------------------------------------------------
\* The dispatcher
\* ------------------------------------------------------------------------
\* the handlers register_events binds, in the order of their registration
Registered ==
    <<"update_domain_item", "add_domain_item", "remove_domain_item",
      "emit_notification", "check_pause_notify", "feature_change",
      "property_change", "debug_change", "update_stats">>

\* the handlers register_events binds to a kind of event
handlers(event) ==
    {h \in {Registered[i] : i \in 1..Len(Registered)} :
        \/ h = "update_domain_item" /\ event \in UpdateKinds
        \/ h = "add_domain_item" /\ event = "domain-add"
        \/ h = "remove_domain_item" /\ event = "domain-delete"
        \/ h = "emit_notification" /\ event \in NotifiedKinds
        \/ h = "check_pause_notify" /\ event \in RecheckKinds
        \/ h = "feature_change" /\ event \in FeatureKinds
        \/ h = "property_change" /\ event \in PropertyKinds
        \/ h = "debug_change" /\ event \in DebugKinds
        \/ h = "update_stats" /\ event \in StatsKinds}

\* one handler called with the event
handle(h, t, env, vm, event, kwargs) ==
    CASE h = "update_domain_item" -> update_domain_item(t, env, vm, event, FALSE)
      [] h = "add_domain_item" -> add_domain_item(t, env, event, vm)
      [] h = "remove_domain_item" -> remove_domain_item(t, vm)
      [] h = "emit_notification" -> emit_notification(t, vm, event, kwargs)
      [] h = "check_pause_notify" -> check_pause_notify(t, env)
      [] h = "feature_change" -> feature_change(t, vm)
      [] h = "property_change" -> property_change(t, vm, event)
      [] h = "debug_change" -> debug_change(t, vm)
      [] h = "update_stats" -> update_stats(t, vm, kwargs)

\* the dispatcher calls the handlers of the event one after the other, in
\* the order hs from the i-th on, with nothing around the calls: an
\* exception ends the dispatch
RECURSIVE dispatch_in(_, _, _, _, _, _, _)
dispatch_in(t, env, vm, event, kwargs, hs, i) ==
    IF i > Len(hs) \/ t.raised THEN t
    ELSE dispatch_in(handle(hs[i], t, env, vm, event, kwargs),
                     env, vm, event, kwargs, hs, i + 1)

\* the keyword arguments the daemon sends with a kind of event
attributes(event) ==
    IF event \in {"domain-start-failed", "domain-shutdown-failed"} THEN {"reason"}
    ELSE IF event = "domain-preload-dispvm-used" THEN {"dispvm"}
    ELSE IF event = "domain-start" THEN {"start_guid"}
    ELSE IF event \in StatsKinds THEN {"memory_kb", "cpu_usage"}
    ELSE IF event \in PropertyKinds \cup DebugKinds \cup FeatureKinds \cup InternalKinds
    THEN {"name", "newvalue"}
    ELSE {}

\* an event with the attributes the daemon sends, dispatched to its
\* handlers in the order of their registration
dispatch(t, env, vm, event) ==
    dispatch_in(t, env, vm, event, attributes(event),
                SelectSeq(Registered, LAMBDA h : h \in handlers(event)), 1)

\* DomainTray.do_unpause_all over the entries of menu_items in the order
\* vms, from the i-th on. self.qapp.domains[vm_name] raises KeyError for a
\* domain that is not live; unpause() raises QubesException when access is
\* denied, which is caught.
RECURSIVE unpause_loop(_, _, _, _)
unpause_loop(t, env, vms, i) ==
    IF i > Len(vms) THEN t
    ELSE LET vm_name == vms[i]
         IN  IF klass(vm_name) = "AdminVM"          \* vm_name == "dom0"
             THEN unpause_loop(t, env, vms, i + 1)
             ELSE IF vm_name \notin env.live THEN [t EXCEPT !.raised = TRUE]
             ELSE IF is_preload(env, vm_name)
             THEN unpause_loop(t, env, vms, i + 1)
             ELSE unpause_loop([t EXCEPT !.effects.attempted = @ \cup {vm_name}],
                               env, vms, i + 1)

\* DomainTray.do_unpause_all; order is the iteration order of menu_items
do_unpause_all(t, env, order) == unpause_loop(t, env, order, 1)

\* ------------------------------------------------------------------------
\* Registration of the handlers
\* ------------------------------------------------------------------------
\* the calls add_handler(event, handler) of register_events, in order, each
\* <<dispatcher, event, handler>>
registrations ==
    <<
      <<"dispatcher", "connection-established", "refresh_all">>,
      <<"dispatcher", "domain-pre-start", "update_domain_item">>,
      <<"dispatcher", "domain-start", "update_domain_item">>,
      <<"dispatcher", "domain-start-failed", "update_domain_item">>,
      <<"dispatcher", "domain-paused", "update_domain_item">>,
      <<"dispatcher", "domain-unpaused", "update_domain_item">>,
      <<"dispatcher", "domain-shutdown", "update_domain_item">>,
      <<"dispatcher", "domain-pre-shutdown", "update_domain_item">>,
      <<"dispatcher", "domain-shutdown-failed", "update_domain_item">>,
      <<"dispatcher", "domain-add", "add_domain_item">>,
      <<"dispatcher", "domain-delete", "remove_domain_item">>,
      <<"dispatcher", "domain-pre-start", "emit_notification">>,
      <<"dispatcher", "domain-start", "emit_notification">>,
      <<"dispatcher", "domain-start-failed", "emit_notification">>,
      <<"dispatcher", "domain-pre-shutdown", "emit_notification">>,
      <<"dispatcher", "domain-shutdown", "emit_notification">>,
      <<"dispatcher", "domain-shutdown-failed", "emit_notification">>,
      <<"dispatcher", "domain-preload-dispvm-used", "emit_notification">>,
      <<"dispatcher", "domain-start", "check_pause_notify">>,
      <<"dispatcher", "domain-paused", "check_pause_notify">>,
      <<"dispatcher", "domain-unpaused", "check_pause_notify">>,
      <<"dispatcher", "domain-shutdown", "check_pause_notify">>,
      <<"dispatcher", "domain-feature-set:updates-available", "feature_change">>,
      <<"dispatcher", "domain-feature-delete:updates-available", "feature_change">>,
      <<"dispatcher", "property-set:netvm", "property_change">>,
      <<"dispatcher", "property-set:label", "property_change">>,
      <<"dispatcher", "property-set:debug", "debug_change">>,
      <<"dispatcher", "property-set:guivm", "debug_change">>,
      <<"dispatcher", "domain-feature-set:gui", "debug_change">>,
      <<"dispatcher", "domain-feature-delete:gui", "debug_change">>,
      <<"dispatcher", "domain-feature-set:expert-mode", "debug_change">>,
      <<"dispatcher", "domain-feature-delete:expert-mode", "debug_change">>,
      <<"dispatcher", "domain-feature-set:internal", "update_domain_item">>,
      <<"dispatcher", "domain-feature-delete:internal", "update_domain_item">>,
      <<"stats_dispatcher", "vm-stats", "update_stats">>
    >>

\* the removals without that of the stats dispatcher
removals_but_stats ==
    <<
      <<"dispatcher", "connection-established", "refresh_all">>,
      <<"dispatcher", "domain-pre-start", "update_domain_item">>,
      <<"dispatcher", "domain-start", "update_domain_item">>,
      <<"dispatcher", "domain-start-failed", "update_domain_item">>,
      <<"dispatcher", "domain-paused", "update_domain_item">>,
      <<"dispatcher", "domain-unpaused", "update_domain_item">>,
      <<"dispatcher", "domain-shutdown", "update_domain_item">>,
      <<"dispatcher", "domain-pre-shutdown", "update_domain_item">>,
      <<"dispatcher", "domain-shutdown-failed", "update_domain_item">>,
      <<"dispatcher", "domain-add", "add_domain_item">>,
      <<"dispatcher", "domain-delete", "remove_domain_item">>,
      <<"dispatcher", "domain-pre-start", "emit_notification">>,
      <<"dispatcher", "domain-start", "emit_notification">>,
      <<"dispatcher", "domain-start-failed", "emit_notification">>,
      <<"dispatcher", "domain-pre-shutdown", "emit_notification">>,
      <<"dispatcher", "domain-shutdown", "emit_notification">>,
      <<"dispatcher", "domain-shutdown-failed", "emit_notification">>,
      <<"dispatcher", "domain-preload-dispvm-used", "emit_notification">>,
      <<"dispatcher", "domain-start", "check_pause_notify">>,
      <<"dispatcher", "domain-paused", "check_pause_notify">>,
      <<"dispatcher", "domain-unpaused", "check_pause_notify">>,
      <<"dispatcher", "domain-shutdown", "check_pause_notify">>,
      <<"dispatcher", "domain-feature-set:updates-available", "feature_change">>,
      <<"dispatcher", "domain-feature-delete:updates-available", "feature_change">>,
      <<"dispatcher", "property-set:netvm", "property_change">>,
      <<"dispatcher", "property-set:label", "property_change">>,
      <<"dispatcher", "property-set:debug", "debug_change">>,
      <<"dispatcher", "property-set:guivm", "debug_change">>,
      <<"dispatcher", "domain-feature-set:gui", "debug_change">>,
      <<"dispatcher", "domain-feature-delete:gui", "debug_change">>,
      <<"dispatcher", "domain-feature-set:expert-mode", "debug_change">>,
      <<"dispatcher", "domain-feature-delete:expert-mode", "debug_change">>,
      <<"dispatcher", "domain-feature-set:internal", "update_domain_item">>,
      <<"dispatcher", "domain-feature-delete:internal", "update_domain_item">>
    >>

\* the calls remove_handler(event, handler) of _disconnect_signals, in order
removals ==
    <<
      <<"dispatcher", "connection-established", "refresh_all">>,
      <<"dispatcher", "domain-pre-start", "update_domain_item">>,
      <<"dispatcher", "domain-start", "update_domain_item">>,
      <<"dispatcher", "domain-start-failed", "update_domain_item">>,
      <<"dispatcher", "domain-paused", "update_domain_item">>,
      <<"dispatcher", "domain-unpaused", "update_domain_item">>,
      <<"dispatcher", "domain-shutdown", "update_domain_item">>,
      <<"dispatcher", "domain-pre-shutdown", "update_domain_item">>,
      <<"dispatcher", "domain-shutdown-failed", "update_domain_item">>,
      <<"dispatcher", "domain-add", "add_domain_item">>,
      <<"dispatcher", "domain-delete", "remove_domain_item">>,
      <<"dispatcher", "domain-pre-start", "emit_notification">>,
      <<"dispatcher", "domain-start", "emit_notification">>,
      <<"dispatcher", "domain-start-failed", "emit_notification">>,
      <<"dispatcher", "domain-pre-shutdown", "emit_notification">>,
      <<"dispatcher", "domain-shutdown", "emit_notification">>,
      <<"dispatcher", "domain-shutdown-failed", "emit_notification">>,
      <<"dispatcher", "domain-preload-dispvm-used", "emit_notification">>,
      <<"dispatcher", "domain-start", "check_pause_notify">>,
      <<"dispatcher", "domain-paused", "check_pause_notify">>,
      <<"dispatcher", "domain-unpaused", "check_pause_notify">>,
      <<"dispatcher", "domain-shutdown", "check_pause_notify">>,
      <<"dispatcher", "domain-feature-set:updates-available", "feature_change">>,
      <<"dispatcher", "domain-feature-delete:updates-available", "feature_change">>,
      <<"dispatcher", "property-set:netvm", "property_change">>,
      <<"dispatcher", "property-set:label", "property_change">>,
      <<"dispatcher", "property-set:debug", "debug_change">>,
      <<"dispatcher", "property-set:guivm", "debug_change">>,
      <<"dispatcher", "domain-feature-set:gui", "debug_change">>,
      <<"dispatcher", "domain-feature-delete:gui", "debug_change">>,
      <<"dispatcher", "domain-feature-set:expert-mode", "debug_change">>,
      <<"dispatcher", "domain-feature-delete:expert-mode", "debug_change">>,
      <<"dispatcher", "domain-feature-set:internal", "update_domain_item">>,
      <<"dispatcher", "domain-feature-delete:internal", "update_domain_item">>,
      <<"stats_dispatcher", "vm-stats", "update_stats">>
    >>

\* EventsDispatcher.add_handler: handlers.setdefault(event, set()).add(handler)
RECURSIVE add_handlers(_, _, _)
add_handlers(reg, calls, i) ==
    IF i > Len(calls) THEN reg
    ELSE add_handlers(reg \cup {calls[i]}, calls, i + 1)

\* DomainTray.register_events on the handlers reg of the two dispatchers
register_events(reg) == add_handlers(reg, registrations, 1)

\* EventsDispatcher.remove_handler: handlers[event].remove(handler), which
\* raises KeyError for a handler that is not registered; the calls from the
\* i-th on, ended by the first exception
RECURSIVE remove_handlers(_, _, _)
remove_handlers(reg, calls, i) ==
    IF i > Len(calls) THEN [handlers |-> reg, raised |-> FALSE]
    ELSE IF calls[i] \notin reg THEN [handlers |-> reg, raised |-> TRUE]
    ELSE remove_handlers(reg \ {calls[i]}, calls, i + 1)

\* DomainTray._disconnect_signals on the handlers reg of the two dispatchers
disconnect_signals(reg) == remove_handlers(reg, removals, 1)

\* the handlers a dispatcher calls for an event: those registered for its
\* kind, in the order of their registration
registered_handlers(reg, event) ==
    SelectSeq(Registered,
              LAMBDA h : \E d \in {"dispatcher", "stats_dispatcher"} :
                            <<d, event, h>> \in reg)

\* ------------------------------------------------------------------------
\* The shift modifier
\* ------------------------------------------------------------------------
\* a reconfiguration that also shows the entry
reconfigure_showing(item, shift) ==
    IF item.submenu.kind = "None" THEN item
    ELSE [item EXCEPT
            !.visible = TRUE,
            !.submenu.terminal = IF @ = "absent" THEN @ ELSE Variant(shift),
            !.submenu.shutdown = IF @ = "absent" THEN @ ELSE Variant(shift),
            !.submenu.restart = IF @ = "absent" THEN @ ELSE Variant(shift)]

\* do_emit over the children of a submenu: set_as_root on the
\* RunTerminalItem, set_force on the RestartItem and the ShutdownItem; an
\* entry without submenu is skipped
reconfigure(item, shift) ==
    IF item.submenu.kind = "None" THEN item
    ELSE [item EXCEPT
            !.submenu.terminal = IF @ = "absent" THEN @ ELSE Variant(shift),
            !.submenu.shutdown = IF @ = "absent" THEN @ ELSE Variant(shift),
            !.submenu.restart = IF @ = "absent" THEN @ ELSE Variant(shift)]

\* the setter without its first test
set_shift_pressed_always(t, shift) ==
    [t EXCEPT !.shift_pressed = shift,
              !.effects.passes = @ + 1,
              !.items = [vm \in DOMAIN @ |-> reconfigure(@[vm], shift)]]

\* the setter of DomainTray.shift_pressed
set_shift_pressed(t, shift) ==
    IF shift = t.shift_pressed THEN t
    ELSE [t EXCEPT !.shift_pressed = shift,
                   !.effects.passes = @ + 1,
                   !.items = [vm \in DOMAIN @ |-> reconfigure(@[vm], shift)]]

\* DomainTray.key_event
key_event(t, keyval, type) ==
    IF keyval \in {"KEY_Shift_L", "KEY_Shift_R"}
    THEN IF type = "KEY_PRESS" THEN set_shift_pressed(t, TRUE)
         ELSE IF type = "KEY_RELEASE" THEN set_shift_pressed(t, FALSE)
         ELSE t
    ELSE t

\* show_menu without the assignment to shift_pressed
show_menu_keeping_flag(t) == t

\* DomainTray.show_menu
show_menu(t) == set_shift_pressed(t, FALSE)

\* ------------------------------------------------------------------------
\* The shutdown and restart actions of a submenu
\* ------------------------------------------------------------------------
\* ShutdownItem.__init__, with what the item has done so far: the force
\* flags of its calls of vm.shutdown, the dialogs it has shown, those still
\* open, the errors it has shown, and whether its last call of vm.shutdown
\* raised QubesException
ShutdownItem ==
    [calls |-> <<>>, prompts |-> 0, dialogs |-> 0, errors |-> 0, failed |-> FALSE]

\* ShutdownItem.perform_action that asks whether the shutdown was forced or
\* not
ShutdownItem_perform_action_asking(s, force, fails) ==
    LET s1 == [s EXCEPT !.calls = Append(@, force), !.failed = fails]
    IN  IF ~fails THEN s1
        ELSE [s1 EXCEPT !.prompts = @ + 1, !.dialogs = @ + 1]

\* ShutdownItem.perform_action with self.force = force; fails: vm.shutdown
\* raises QubesException
ShutdownItem_perform_action(s, force, fails) ==
    LET s1 == [s EXCEPT !.calls = Append(@, force), !.failed = fails]
    IN  IF ~fails THEN s1
        ELSE IF force THEN [s1 EXCEPT !.errors = @ + 1]          \* show_error
        ELSE [s1 EXCEPT !.prompts = @ + 1, !.dialogs = @ + 1]

\* ShutdownItem.react_to_question, the response of one open dialog
ShutdownItem_react_to_question(s, response, fails) ==
    LET s1 == [s EXCEPT !.dialogs = @ - 1]                    \* widget.destroy()
    IN  IF response = "OK"
        THEN LET s2 == [s1 EXCEPT !.calls = Append(@, TRUE), !.failed = fails]
             IN  IF fails THEN [s2 EXCEPT !.errors = @ + 1] ELSE s2
        ELSE [s1 EXCEPT !.failed = FALSE]

\* RestartItem.__init__, with the place of the task of perform_action
\* ("none" when no task runs, "sleeping" in asyncio.sleep, "starting" in
\* qvm-start) and what the last activation has done: a shutdown request of
\* it was accepted, it has issued the start command
RestartItem ==
    [give_up |-> FALSE, task |-> "none", dialogs |-> 0, errors |-> 0,
     accepted |-> FALSE, started |-> FALSE]

\* one round of the loop 'while self.vm.is_running()' of
\* RestartItem.perform_action and what follows it, up to the next await;
\* observed is the value of is_running()
RestartItem_wait(r, observed) ==
    IF observed = Raise THEN [r EXCEPT !.errors = @ + 1, !.task = "none"]
    ELSE IF observed = "True"
    THEN IF r.give_up THEN [r EXCEPT !.task = "none"]           \* return
         ELSE [r EXCEPT !.task = "sleeping"]
    ELSE [r EXCEPT !.task = "starting", !.started = TRUE]      \* qvm-start

\* RestartItem.perform_action with self.force = force, up to its first
\* await; fails: vm.shutdown raises QubesException
RestartItem_perform_action(r, force, fails, observed) ==
    LET r0 == [r EXCEPT !.accepted = FALSE, !.started = FALSE]
    IN  IF ~fails THEN RestartItem_wait([r0 EXCEPT !.accepted = TRUE], observed)
        ELSE IF force THEN [r0 EXCEPT !.errors = @ + 1, !.task = "none"]
        ELSE RestartItem_wait([r0 EXCEPT !.dialogs = @ + 1], observed)

\* RestartItem.perform_action after qvm-start has ended with returncode
RestartItem_started(r, returncode) ==
    IF returncode # 0 THEN [r EXCEPT !.errors = @ + 1, !.task = "none"]
    ELSE [r EXCEPT !.task = "none"]

\* RestartItem.react_to_question, the response of one open dialog
RestartItem_react_to_question(r, response, fails) ==
    LET r1 == [r EXCEPT !.dialogs = @ - 1]                    \* widget.destroy()
    IN  IF response = "OK"
        THEN IF fails THEN [r1 EXCEPT !.errors = @ + 1, !.give_up = TRUE]
             ELSE [r1 EXCEPT !.accepted = @ \/ r.task # "none"]
        ELSE [r1 EXCEPT !.give_up = TRUE]

\* ------------------------------------------------------------------------
\* The actions of the device widgets
\* ------------------------------------------------------------------------
\* the qubes of the device widgets; the first is a template for disposables
DeviceVMs == 1..NumDeviceVMs
disp_vm_templates == {1}

\* a device attached to no qube, and no disposable made for it
Device == [attachments |-> {}, disposables |-> 0]

\* backend.Device.detach_from_vm: the device is attached to vm no more
detach_from_vm(dev, vm) == [dev EXCEPT !.attachments = @ \ {vm}]

\* backend.Device.attach_to_vm: the device is attached to vm, unless the
\* daemon refuses
attach_to_vm(dev, vm, refused) ==
    IF refused THEN dev ELSE [dev EXCEPT !.attachments = @ \cup {vm}]

\* DispVM.from_appvm and start(): the identity of one more disposable
new_dispvm(dev) == NumDeviceVMs + dev.disposables + 1

\* AttachWidget.widget_action
AttachWidget(dev, vm, refused) == attach_to_vm(dev, vm, refused)

\* DetachWidget.widget_action
DetachWidget(dev, vm) == detach_from_vm(dev, vm)

\* DetachAndAttachWidget.widget_action: the loop over device.attachments
\* detaches from each of them
DetachAndAttachWidget(dev, vm, refused) ==
    attach_to_vm([dev EXCEPT !.attachments = {}], vm, refused)

\* AttachDisposableWidget.widget_action
AttachDisposableWidget(dev, vm, refused) ==
    attach_to_vm([dev EXCEPT !.disposables = @ + 1], new_dispvm(dev), refused)

\* DetachAndAttachDisposableWidget.widget_action; vm is the template of
\* the disposable
DetachAndAttachDisposableWidget(dev, vm, refused) ==
    attach_to_vm([detach_from_vm(dev, vm) EXCEPT !.disposables = @ + 1],
                 new_dispvm(dev), refused)

\* ------------------------------------------------------------------------
\* The events of the daemon
\* ------------------------------------------------------------------------
\* no event has arrived: the events that have arrived, in order, each
\* <<vm, event>>, those of them not yet delivered, and those delivered
NoEvents == [arrived |-> <<>>, pending |-> <<>>, delivered |-> <<>>]

\* the daemon has sent an event
arrive(q, e) ==
    [q EXCEPT !.arrived = Append(@, e), !.pending = Append(@, e)]

\* a delivery that takes the latest pending event for a domain in place of
\* the earlier ones
deliver_latest(q) ==
    LET vm == Head(q.pending)[1]
        same == SelectSeq(q.pending, LAMBDA e : e[1] = vm)
        e == same[Len(same)]
    IN  [event |-> e,
         queue |-> [q EXCEPT !.pending = SelectSeq(@, LAMBDA x : x[1] # vm),
                             !.delivered = Append(@, e)]]

\* the task listen_for_events of the dispatcher takes the events one by
\* one as they come and calls the handlers of each: the next event, and the
\* queue it leaves
deliver(q) ==
    [event |-> Head(q.pending),
     queue |-> [q EXCEPT !.pending = Tail(@),
                         !.delivered = Append(@, Head(q.pending))]]

\* ------------------------------------------------------------------------
\* State
\* ------------------------------------------------------------------------
VARIABLES
    live,        \* qapp.domains: the identities of the live domains
    power,       \* the live power state of every domain (Halted when not live)
    preload,     \* the domains whose is_preload is true
    internal,    \* the domains whose feature "internal" is set
    tray_menu,   \* DomainTray.tray_menu: the children of the menu, in order
    menu_items,  \* DomainTray.menu_items: identity -> entry
    menu_keys,   \* the keys of menu_items in the order of their insertion
    template,    \* vm.template of every domain (0 for none)
    template_for_dispvms,   \* the domains whose template_for_dispvms is true
    outdated,    \* the domains with a volume whose is_outdated() is true
    timer,       \* the timeout source of refresh_tooltips is installed
    registered,  \* the handlers of the two dispatchers
    running,     \* the application has not emitted its shutdown signal
    shutdown_item,   \* a ShutdownItem of a domain and what it has done
    restart_item,    \* a RestartItem of a domain, its task and what it has done
    device,          \* a device: the qubes it is attached to, the disposables made
    queue,           \* the events of the daemon: arrived, pending, delivered
    shift_pressed,            \* DomainTray._shift_pressed
    pause_notification_out,   \* DomainTray.pause_notification_out
    outstanding, \* "vms-paused" notifications sent and not withdrawn
    raised,      \* ghost: the last handler ended by an exception
    queries,     \* ghost: calls of get_power_state made by the last handler
    effects,     \* ghost: what else the last handler did
    last,        \* ghost: the last step, [op, vm, event, had]: had tells that
                 \* vm was in menu_items before the step
    steps        \* ghost: number of steps so far

vars ==
    <<live, power, preload, internal, tray_menu, menu_items, menu_keys,
      template, template_for_dispvms, outdated, timer, registered, running,
      shutdown_item, restart_item, device, queue, shift_pressed,
      pause_notification_out, outstanding, raised, queries, effects, last,
      steps>>

Admins == {d \in Domains : klass(d) = "AdminVM"}

\* the tray a handler starts from
Tray ==
    [menu |-> tray_menu, items |-> menu_items, keys |-> menu_keys,
     shift_pressed |-> shift_pressed,
     pause_notification_out |-> pause_notification_out,
     outstanding |-> outstanding,
     raised |-> FALSE, queries |-> 0, effects |-> NoEffects]

\* the environment of one handler call: the live domains and their power
\* states, the domains whose power state is denied (denied), whose class
\* cannot be read (noklass), and that are destroyed while the handler runs
\* (gone)
Env(denied, noklass, gone) ==
    [live |-> live, power |-> power, preload |-> preload, internal |-> internal,
     template |-> template, template_for_dispvms |-> template_for_dispvms,
     outdated |-> outdated,
     denied |-> denied, noklass |-> noklass, gone |-> gone]

NoFailure == Env({}, {}, {})

\* the environments a handler for vm may meet: no failure, or one of: the
\* power state of vm is denied, vm is destroyed meanwhile, the class of vm
\* or of a domain of the registry cannot be read
Environments(vm) ==
    {NoFailure, Env({vm}, {}, {})}
    \cup {Env({}, {}, {d}) : d \in ({vm} \cap live) \ Admins}
    \cup {Env({}, {d}, {}) : d \in (DOMAIN menu_items \cup {vm}) \ Admins}

\* the environments refresh_all may meet
RefreshEnvironments ==
    {Env(denied, {}, {}) : denied \in SUBSET (live \ Admins)}
    \cup {Env({}, {d}, {}) : d \in live \ Admins}

\* a handler has run: the tray it leaves
TrayChange(t, op, vm, event) ==
    /\ tray_menu' = t.menu
    /\ menu_items' = t.items
    /\ menu_keys' = t.keys
    /\ shift_pressed' = t.shift_pressed
    /\ pause_notification_out' = t.pause_notification_out
    /\ outstanding' = t.outstanding
    /\ raised' = t.raised
    /\ queries' = t.queries
    /\ effects' = t.effects
    /\ UNCHANGED <<preload, internal, template, template_for_dispvms, outdated,
                   registered, running, shutdown_item, restart_item, device>>
    /\ last' = [op |-> op, vm |-> vm, event |-> event,
                had |-> vm \in DOMAIN menu_items]

\* a handler has run that no queued event has called
TrayStep(t, op, vm, event) ==
    /\ TrayChange(t, op, vm, event)
    /\ UNCHANGED queue

\* a handler other than the timer's has run, as one more step
TrayAfter(t, op, vm, event) ==
    /\ TrayStep(t, op, vm, event)
    /\ steps' = steps + 1
    /\ UNCHANGED timer

\* a handler has run: the tray it leaves, and the domains destroyed meanwhile
Handled(t, env, op, vm, event) ==
    /\ TrayAfter(t, op, vm, event)
    /\ live' = live \ env.gone
    /\ power' = [d \in AllDomains |->
                   IF d \in env.gone THEN "Halted" ELSE power[d]]

\* no domain has a template, is a template for disposables or has an
\* outdated volume
NoTemplates ==
    [template |-> [d \in AllDomains |-> 0], template_for_dispvms |-> {},
     outdated |-> {}]

\* startup: the AdminVM is live and running, every other live domain is
\* one of universe and in one of the power states powers (the other power
\* states come by PowerChanged), the templates and volumes are one of
\* layouts, and the tray is as __init__ and run() leave it
StartupOf(universe, powers, preloads, internals, layouts) ==
    /\ live \in {S \in SUBSET universe : Admins \subseteq S}
    /\ power \in [AllDomains -> powers]
    /\ \A d \in AllDomains \ live : power[d] = "Halted"
    /\ \A d \in Admins : power[d] = "Running"
    /\ preload \in preloads
    /\ internal \in internals
    /\ \E layout \in layouts :
          /\ template = layout.template
          /\ template_for_dispvms = layout.template_for_dispvms
          /\ outdated = layout.outdated
    /\ timer = TRUE
    /\ registered = register_events({})
    /\ running = TRUE
    /\ shutdown_item = ShutdownItem
    /\ restart_item = RestartItem
    /\ device = Device
    /\ queue = NoEvents
    /\ LET t == initialize_menu(NoFailure)
       IN  /\ tray_menu = t.menu
           /\ menu_items = t.items
           /\ menu_keys = t.keys
           /\ shift_pressed = t.shift_pressed
           /\ pause_notification_out = t.pause_notification_out
           /\ outstanding = t.outstanding
    /\ raised = FALSE
    /\ queries = 0
    /\ effects = NoEffects
    /\ last = [op |-> "init", vm |-> 0, event |-> NoneEvent, had |-> FALSE]
    /\ steps = 0

\* startup without templates
Startup(powers, preloads, internals) ==
    StartupOf(Domains, powers, preloads, internals, {NoTemplates})

\* startup with no preloaded and no internal domain
Init == Startup({"Halted", "Running"}, {{}}, {{}})

\* the dispatcher delivers domain-add to add_domain_item
DomainAddEvent ==
    \E vm \in Domains :
    \E env \in Environments(vm) :
        Handled(add_domain_item(Tray, env, "domain-add", vm),
                env, "add", vm, "domain-add")

\* the dispatcher delivers domain-delete to remove_domain_item: the domain
\* was destroyed before
DomainDeleteEvent ==
    \E vm \in Domains \ live :
        Handled(remove_domain_item(Tray, vm), NoFailure, "remove", vm, "domain-delete")

\* the dispatcher delivers a lifecycle or internal-feature event to
\* update_domain_item
DomainUpdateEvent ==
    \E vm \in Domains :
    \E event \in UpdateKinds :
    \E env \in Environments(vm) :
        Handled(update_domain_item(Tray, env, vm, event, FALSE),
                env, "update", vm, event)

\* the same, when the lookup of vm in menu_items raises
\* QubesPropertyAccessError
DomainUpdateLookupFailsEvent ==
    \E vm \in Domains :
    \E event \in UpdateKinds :
        Handled(update_domain_item(Tray, NoFailure, vm, event, TRUE),
                NoFailure, "lookup-failed", vm, event)

\* the dispatcher delivers connection-established to refresh_all
ConnectionEstablishedEvent ==
    \E env \in RefreshEnvironments :
        Handled(refresh_all(Tray, env), env, "refresh", 0, "")

\* the environment: a domain is created, destroyed, changes its power state
EnvStep(l, p) ==
    /\ live' = l
    /\ power' = p
    /\ last' = [op |-> "env", vm |-> 0, event |-> NoneEvent, had |-> FALSE]
    /\ raised' = FALSE
    /\ queries' = 0
    /\ effects' = NoEffects
    /\ steps' = steps + 1
    /\ UNCHANGED <<preload, internal, tray_menu, menu_items, menu_keys,
                   template, template_for_dispvms, outdated, timer, registered,
                   running, shutdown_item, restart_item, device, queue,
                   shift_pressed, pause_notification_out, outstanding>>

\* (a created domain may be started before the tray handles anything)
DomainCreatedEvent ==
    \E d \in Domains \ live, p \in {"Halted", "Running"} :
        EnvStep(live \cup {d}, [power EXCEPT ![d] = p])

DomainDestroyedEvent ==
    \E d \in live \ Admins :
        EnvStep(live \ {d}, [power EXCEPT ![d] = "Halted"])

PowerChangedEvent ==
    \E d \in live \ Admins, p \in PowerStates :
        /\ p # power[d]
        /\ EnvStep(live, [power EXCEPT ![d] = p])

\* every behaviour is cut after MaxSteps steps
DomainAdd == steps < MaxSteps /\ DomainAddEvent
DomainDelete == steps < MaxSteps /\ DomainDeleteEvent
DomainUpdate == steps < MaxSteps /\ DomainUpdateEvent
DomainUpdateLookupFails == steps < MaxSteps /\ DomainUpdateLookupFailsEvent
ConnectionEstablished == steps < MaxSteps /\ ConnectionEstablishedEvent
DomainCreated == steps < MaxSteps /\ DomainCreatedEvent
DomainDestroyed == steps < MaxSteps /\ DomainDestroyedEvent
PowerChanged == steps < MaxSteps /\ PowerChangedEvent

Next ==
    \/ DomainAdd
    \/ DomainDelete
    \/ DomainUpdate
    \/ DomainUpdateLookupFails
    \/ ConnectionEstablished
    \/ DomainCreated
    \/ DomainDestroyed
    \/ PowerChanged

Spec == Init /\ [][Next]_vars

\* the behaviours in which domains are created and destroyed, domain-add and
\* domain-delete are delivered and the connection is re-established, cut
\* after MaxOrderSteps steps
OrderDomainAdd == steps < MaxOrderSteps /\ DomainAddEvent
OrderDomainDelete == steps < MaxOrderSteps /\ DomainDeleteEvent
OrderConnectionEstablished == steps < MaxOrderSteps /\ ConnectionEstablishedEvent
OrderDomainCreated == steps < MaxOrderSteps /\ DomainCreatedEvent
OrderDomainDestroyed == steps < MaxOrderSteps /\ DomainDestroyedEvent

OrderNext ==
    \/ OrderDomainAdd
    \/ OrderDomainDelete
    \/ OrderConnectionEstablished
    \/ OrderDomainCreated
    \/ OrderDomainDestroyed

SpecOrder == Init /\ [][OrderNext]_vars

\* ------------------------------------------------------------------------
\* Events as the dispatcher delivers them to all their handlers
\* ------------------------------------------------------------------------
\* the kinds of event that reconcile the registry
DispatchedKinds == DOMAIN STATE_DICTIONARY \cup {"domain-add", "domain-delete"}

\* startup with domains that may be paused, the last of them preloaded or not
InitPause ==
    Startup({"Halted", "Running", "Paused"}, {{}, {NumDomains} \ Admins}, {{}})

\* the dispatcher delivers an event to every handler registered for it;
\* domain-delete comes for a destroyed domain
DispatchEvent ==
    \E vm \in Domains :
    \E event \in DispatchedKinds :
        /\ event = "domain-delete" => vm \notin live
        /\ Handled(dispatch(Tray, NoFailure, vm, event), NoFailure, "event", vm, event)

\* the orders in which a dict of the keys S may be iterated
Orders(S) ==
    {order \in [1..Cardinality(S) -> S] :
        \A i, j \in 1..Cardinality(S) : i # j => order[i] # order[j]}

\* the action do-unpause-all of the notification runs do_unpause_all; every
\* paused domain whose unpause() is called and not denied runs again
UnpauseAllEvent ==
    \E order \in Orders(DOMAIN menu_items) :
    \E env \in {NoFailure} \cup {Env({d}, {}, {}) : d \in live \ Admins} :
        LET t == do_unpause_all(Tray, env, order)
        IN  /\ TrayAfter(t, "unpause-all", 0, NoneEvent)
            /\ live' = live
            /\ power' = [d \in AllDomains |->
                           IF /\ d \in t.effects.attempted \ env.denied
                              /\ power[d] = "Paused"
                           THEN "Running" ELSE power[d]]

\* every behaviour is cut after MaxPauseSteps steps
PauseDispatch == steps < MaxPauseSteps /\ DispatchEvent
PauseUnpauseAll == steps < MaxPauseSteps /\ UnpauseAllEvent
PauseDomainCreated == steps < MaxPauseSteps /\ DomainCreatedEvent
PauseDomainDestroyed == steps < MaxPauseSteps /\ DomainDestroyedEvent
PausePowerChanged == steps < MaxPauseSteps /\ PowerChangedEvent

PauseNext ==
    \/ PauseDispatch
    \/ PauseUnpauseAll
    \/ PauseDomainCreated
    \/ PauseDomainDestroyed
    \/ PausePowerChanged

SpecPause == InitPause /\ [][PauseNext]_vars

\* ------------------------------------------------------------------------
\* Keys and events
\* ------------------------------------------------------------------------
\* startup with the last domain internal or not
InitShift == Startup({"Halted", "Running"}, {{}}, {{}, {NumDomains} \ Admins})

\* a key is pressed or released over the menu
KeyEvent ==
    \E keyval \in {"KEY_Shift_L", "KEY_Shift_R", "KEY_a"} :
    \E type \in {"KEY_PRESS", "KEY_RELEASE"} :
        /\ TrayAfter(key_event(Tray, keyval, type), "key", 0, type)
        /\ UNCHANGED <<live, power>>

\* the tray icon is clicked
ShowMenuEvent ==
    /\ TrayAfter(show_menu(Tray), "show-menu", 0, NoneEvent)
    /\ UNCHANGED <<live, power>>

\* every behaviour is cut after MaxShiftSteps steps
ShiftKey == steps < MaxShiftSteps /\ KeyEvent
ShiftShowMenu == steps < MaxShiftSteps /\ ShowMenuEvent
ShiftDispatch == steps < MaxShiftSteps /\ DispatchEvent
ShiftPowerChanged == steps < MaxShiftSteps /\ PowerChangedEvent

ShiftNext ==
    \/ ShiftKey
    \/ ShiftShowMenu
    \/ ShiftDispatch
    \/ ShiftPowerChanged

SpecShift == InitShift /\ [][ShiftNext]_vars

\* ------------------------------------------------------------------------
\* Events of every kind, with the attributes they carry
\* ------------------------------------------------------------------------
\* every kind of event a handler is registered for
EventKinds ==
    DispatchedKinds \cup NotifiedKinds \cup InternalKinds \cup PropertyKinds
    \cup FeatureKinds \cup DebugKinds \cup StatsKinds

\* the attributes an event of a kind may come with: those the daemon sends,
\* those and one more, or those but one
AttributeSets(event) ==
    {attributes(event), attributes(event) \cup {"extra"}}
    \cup {attributes(event) \ {k} : k \in attributes(event)}

\* startup with the last domain internal or not
InitEvents ==
    Startup({"Halted", "Running"}, {{}}, {{}, {NumDomains} \ Admins})

\* the dispatcher delivers an event with its attributes to the handlers
\* registered for its kind, in the order the set of handlers iterates
AttributedEvent ==
    \E vm \in Domains :
    \E event \in EventKinds :
    \E kwargs \in AttributeSets(event) :
    \E hs \in Orders(handlers(event)) :
        /\ event = "domain-delete" => vm \notin live
        /\ Handled(dispatch_in(Tray, NoFailure, vm, event, kwargs, hs, 1),
                   NoFailure, "event", vm, event)

\* every behaviour is cut after MaxEventSteps steps
EventsDispatch == steps < MaxEventSteps /\ AttributedEvent
EventsDomainCreated == steps < MaxEventSteps /\ DomainCreatedEvent
EventsDomainDestroyed == steps < MaxEventSteps /\ DomainDestroyedEvent
EventsPowerChanged == steps < MaxEventSteps /\ PowerChangedEvent

EventsNext ==
    \/ EventsDispatch
    \/ EventsDomainCreated
    \/ EventsDomainDestroyed
    \/ EventsPowerChanged

SpecEvents == InitEvents /\ [][EventsNext]_vars

\* ------------------------------------------------------------------------
\* Templates and their dependents
\* ------------------------------------------------------------------------
\* domains 3 and 4 are based on the template 2, or 3 is a template for
\* disposables based on 2 and 4 a disposable of 3; 4 has an outdated
\* volume, and 3 has one or not
Layouts ==
    {[template |-> [d \in AllDomains |->
                      IF d = 3 THEN 2 ELSE IF d = 4 THEN base ELSE 0],
      template_for_dispvms |-> IF base = 3 THEN {3} ELSE {},
      outdated |-> stale]
        : base \in {2, 3}, stale \in {{3, 4}, {4}}}

\* startup with the template and its dependents all live
InitTemplates ==
    /\ StartupOf(TemplateDomains, {"Halted", "Running"}, {{}}, {{}}, Layouts)
    /\ live = TemplateDomains

\* the environments a lifecycle event may meet: no failure, or a domain
\* whose properties are denied, or one destroyed meanwhile
ScanEnvironments ==
    {NoFailure}
    \cup {Env({d}, {}, {}) : d \in live \ Admins}
    \cup {Env({}, {}, {d}) : d \in live \ Admins}

\* the dispatcher delivers an event of one of the kinds that set or clear
\* the outdated indicator to its handlers
LifecycleEvent ==
    \E vm \in TemplateDomains :
    \E event \in {"domain-pre-start", "domain-start", "domain-shutdown"} :
    \E env \in ScanEnvironments :
        Handled(dispatch(Tray, env, vm, event), env, "event", vm, event)

\* every behaviour is cut after MaxTemplateSteps steps
TemplatesLifecycle == steps < MaxTemplateSteps /\ LifecycleEvent
TemplatesPowerChanged == steps < MaxTemplateSteps /\ PowerChangedEvent

TemplatesNext ==
    \/ TemplatesLifecycle
    \/ TemplatesPowerChanged

SpecTemplates == InitTemplates /\ [][TemplatesNext]_vars

\* ------------------------------------------------------------------------
\* The timer of the tooltips
\* ------------------------------------------------------------------------
\* the main loop calls refresh_tooltips when the interval of its source has
\* passed; the source stays or goes by the value returned
TimerFires ==
    /\ timer
    /\ \E failing \in SUBSET (DOMAIN menu_items) :
          TrayStep(refresh_tooltips(Tray, failing), "tooltips", 0, NoneEvent)
    /\ timer' = source_continues(refresh_tooltips_returns)
    /\ UNCHANGED <<live, power, steps>>

\* a key is pressed or released over the menu, at any time
TimerKey ==
    /\ \E keyval \in {"KEY_Shift_L", "KEY_a"} :
       \E type \in {"KEY_PRESS", "KEY_RELEASE"} :
          TrayStep(key_event(Tray, keyval, type), "key", 0, type)
    /\ UNCHANGED <<live, power, steps, timer>>

\* at most MaxTimerSteps events are dispatched
TimerDispatch == steps < MaxTimerSteps /\ DispatchEvent

TimerNext ==
    \/ TimerFires
    \/ TimerKey
    \/ TimerDispatch

\* the main loop does not leave an installed source uncalled forever
SpecTimer == Init /\ [][TimerNext]_vars /\ WF_vars(TimerFires)

\* ------------------------------------------------------------------------
\* The shutdown of the application
\* ------------------------------------------------------------------------
\* the kinds of event dispatched in the behaviours with a shutdown
ShutdownKinds ==
    {"domain-start", "domain-shutdown", "domain-add", "domain-delete",
     "property-set:label", "domain-feature-set:updates-available",
     "property-set:debug", "vm-stats"}

\* the application emits its shutdown signal, once, and the handler
\* connected to it by initialize_menu runs
ShutdownSignal ==
    /\ running
    /\ running' = FALSE
    /\ LET r == disconnect_signals(registered)
       IN  /\ registered' = r.handlers
           /\ raised' = r.raised
    /\ queries' = 0
    /\ effects' = NoEffects
    /\ last' = [op |-> "shutdown", vm |-> 0, event |-> NoneEvent, had |-> FALSE]
    /\ UNCHANGED <<live, power, preload, internal, tray_menu, menu_items,
                   menu_keys, template, template_for_dispvms, outdated, timer,
                   shutdown_item, restart_item, device, queue, shift_pressed,
                   pause_notification_out, outstanding, steps>>

\* a dispatcher delivers an event to the handlers registered for it at the
\* time, before the shutdown or after it
ShutdownDispatchEvent ==
    \E vm \in Domains :
    \E event \in ShutdownKinds :
        /\ event = "domain-delete" => vm \notin live
        /\ Handled(dispatch_in(Tray, NoFailure, vm, event, attributes(event),
                               registered_handlers(registered, event), 1),
                   NoFailure, "event", vm, event)

\* the dispatcher delivers connection-established to refresh_all while it
\* is registered
ShutdownConnectionEvent ==
    /\ <<"dispatcher", "connection-established", "refresh_all">> \in registered
    /\ ConnectionEstablishedEvent

\* number of events in the behaviours with a shutdown
ShutdownDispatch == steps < MaxShutdownSteps /\ ShutdownDispatchEvent
ShutdownConnection == steps < MaxShutdownSteps /\ ShutdownConnectionEvent
ShutdownDomainCreated == steps < MaxShutdownSteps /\ DomainCreatedEvent
ShutdownDomainDestroyed == steps < MaxShutdownSteps /\ DomainDestroyedEvent
ShutdownPowerChanged == steps < MaxShutdownSteps /\ PowerChangedEvent

ShutdownNext ==
    \/ ShutdownSignal
    \/ ShutdownDispatch
    \/ ShutdownConnection
    \/ ShutdownDomainCreated
    \/ ShutdownDomainDestroyed
    \/ ShutdownPowerChanged

SpecShutdown == Init /\ [][ShutdownNext]_vars

\* ------------------------------------------------------------------------
\* The shutdown and restart actions of the submenu of one domain
\* ------------------------------------------------------------------------
\* the domain of the two items
ActionDomain == NumDomains

\* startup with the domain running
InitActions ==
    /\ Init
    /\ ActionDomain \in live
    /\ power[ActionDomain] = "Running"

\* an item has acted: the two items and the power state of the domain
ItemStep(s, r, p, op, event) ==
    /\ shutdown_item' = s
    /\ restart_item' = r
    /\ power' = [power EXCEPT ![ActionDomain] = p]
    /\ last' = [op |-> op, vm |-> ActionDomain, event |-> event, had |-> FALSE]
    /\ UNCHANGED <<live, preload, internal, tray_menu, menu_items, menu_keys,
                   template, template_for_dispvms, outdated, timer, registered,
                   running, device, queue, shift_pressed, pause_notification_out,
                   outstanding, raised, queries, effects>>

\* the label of the variant of an action
Forced(force) == IF force THEN "forced" ELSE "plain"

\* the shutdown item is activated; the task of perform_action runs to its
\* end at once
ShutdownActivated ==
    /\ steps < MaxActionSteps
    /\ \E force, fails \in BOOLEAN :
          ItemStep(ShutdownItem_perform_action(shutdown_item, force, fails),
                   restart_item, power[ActionDomain], "shutdown-item", Forced(force))
    /\ steps' = steps + 1

\* the user answers a dialog of the shutdown item
ShutdownAnswered ==
    /\ steps < MaxActionSteps
    /\ shutdown_item.dialogs > 0
    /\ \E response \in {"OK", "CANCEL"}, fails \in BOOLEAN :
          ItemStep(ShutdownItem_react_to_question(shutdown_item, response, fails),
                   restart_item, power[ActionDomain], "shutdown-question", response)
    /\ steps' = steps + 1

\* the restart item is activated while no task of it runs; the task of
\* perform_action runs to its first await
RestartActivated ==
    /\ steps < MaxActionSteps
    /\ restart_item.task = "none"
    /\ \E force, fails \in BOOLEAN :
          ItemStep(shutdown_item,
                   RestartItem_perform_action(restart_item, force, fails,
                                              is_running(NoFailure, ActionDomain)),
                   power[ActionDomain], "restart-item", Forced(force))
    /\ steps' = steps + 1

\* the user answers a dialog of the restart item
RestartAnswered ==
    /\ steps < MaxActionSteps
    /\ restart_item.dialogs > 0
    /\ \E response \in {"OK", "CANCEL"}, fails \in BOOLEAN :
          ItemStep(shutdown_item,
                   RestartItem_react_to_question(restart_item, response, fails),
                   power[ActionDomain], "restart-question", response)
    /\ steps' = steps + 1

\* asyncio.sleep(1) of the task ends and the loop goes round
RestartWakes ==
    /\ restart_item.task = "sleeping"
    /\ ItemStep(shutdown_item,
                RestartItem_wait(restart_item, is_running(NoFailure, ActionDomain)),
                power[ActionDomain], "restart-wait", NoneEvent)
    /\ UNCHANGED steps

\* qvm-start ends: with 0 the domain runs again
RestartStartEnds ==
    /\ restart_item.task = "starting"
    /\ \E returncode \in {0, 1} :
          ItemStep(shutdown_item, RestartItem_started(restart_item, returncode),
                   IF returncode = 0 THEN "Running" ELSE power[ActionDomain],
                   "restart-started", NoneEvent)
    /\ UNCHANGED steps

\* the domain halts after a shutdown request of the restart item was accepted
ActionDomainHalts ==
    /\ restart_item.accepted
    /\ ~restart_item.started
    /\ power[ActionDomain] = "Running"
    /\ ItemStep(shutdown_item, restart_item, "Halted", "env", NoneEvent)
    /\ UNCHANGED steps

ActionsNext ==
    \/ ShutdownActivated
    \/ ShutdownAnswered
    \/ RestartActivated
    \/ RestartAnswered
    \/ RestartWakes
    \/ RestartStartEnds
    \/ ActionDomainHalts

\* the loop of asyncio wakes a sleeping task and ends a started process, and
\* a domain whose shutdown was accepted halts
SpecActions ==
    /\ InitActions
    /\ [][ActionsNext]_vars
    /\ WF_vars(RestartWakes)
    /\ WF_vars(RestartStartEnds)
    /\ WF_vars(ActionDomainHalts)

\* ------------------------------------------------------------------------
\* The widgets of a device
\* ------------------------------------------------------------------------
\* a widget of the device has acted on vm
DeviceStep(dev, op, vm) ==
    /\ steps < MaxDeviceSteps
    /\ device' = dev
    /\ steps' = steps + 1
    /\ last' = [op |-> op, vm |-> vm, event |-> NoneEvent, had |-> FALSE]
    /\ UNCHANGED <<live, power, preload, internal, tray_menu, menu_items,
                   menu_keys, template, template_for_dispvms, outdated, timer,
                   registered, running, shutdown_item, restart_item, queue,
                   shift_pressed, pause_notification_out, outstanding, raised,
                   queries, effects>>

\* get_child_widgets offers the widgets by the attachments of the device:
\* to detach from a qube it is attached to
DeviceDetach ==
    \E vm \in device.attachments :
        DeviceStep(DetachWidget(device, vm), "detach", vm)

\* to detach and attach to a qube it is not attached to
DeviceDetachAndAttach ==
    /\ device.attachments # {}
    /\ \E vm \in DeviceVMs \ device.attachments, refused \in BOOLEAN :
          DeviceStep(DetachAndAttachWidget(device, vm, refused),
                     "detach-attach", vm)

\* to detach and attach to a new disposable of a template
DeviceDetachAndAttachDisposable ==
    /\ device.attachments # {}
    /\ \E vm \in disp_vm_templates, refused \in BOOLEAN :
          DeviceStep(DetachAndAttachDisposableWidget(device, vm, refused),
                     "detach-attach-disposable", vm)

\* to attach to a qube, when it is attached to none
DeviceAttach ==
    /\ device.attachments = {}
    /\ \E vm \in DeviceVMs, refused \in BOOLEAN :
          DeviceStep(AttachWidget(device, vm, refused), "attach", vm)

\* to attach to a new disposable of a template, when it is attached to none
DeviceAttachDisposable ==
    /\ device.attachments = {}
    /\ \E vm \in disp_vm_templates, refused \in BOOLEAN :
          DeviceStep(AttachDisposableWidget(device, vm, refused),
                     "attach-disposable", vm)

DevicesNext ==
    \/ DeviceDetach
    \/ DeviceDetachAndAttach
    \/ DeviceDetachAndAttachDisposable
    \/ DeviceAttach
    \/ DeviceAttachDisposable

SpecDevices == Init /\ [][DevicesNext]_vars

\* ------------------------------------------------------------------------
\* Events that wait for the dispatcher
\* ------------------------------------------------------------------------
\* the kinds of event that arrive in the behaviours with a queue
QueuedKinds == {"domain-start", "domain-shutdown", "domain-paused"}

\* a domain changes its power state and the daemon sends the event of it,
\* which waits for the dispatcher
QueueArrives ==
    /\ steps < MaxQueueSteps
    /\ \E vm \in live \ Admins, event \in QueuedKinds :
          /\ queue' = arrive(queue, <<vm, event>>)
          /\ power' = [power EXCEPT ![vm] = STATE_DICTIONARY[event]]
          /\ last' = [op |-> "arrive", vm |-> vm, event |-> event,
                      had |-> vm \in DOMAIN menu_items]
    /\ steps' = steps + 1
    /\ UNCHANGED <<live, preload, internal, tray_menu, menu_items, menu_keys,
                   template, template_for_dispvms, outdated, timer, registered,
                   running, shutdown_item, restart_item, device, shift_pressed,
                   pause_notification_out, outstanding, raised, queries,
                   effects>>

\* the dispatcher takes the next event and calls its handlers, which run
\* to their end
QueueDelivers ==
    /\ queue.pending # <<>>
    /\ LET d == deliver(queue)
       IN  /\ queue' = d.queue
           /\ TrayChange(dispatch(Tray, NoFailure, d.event[1], d.event[2]),
                         "deliver", d.event[1], d.event[2])
    /\ UNCHANGED <<live, power, timer, steps>>

QueueNext ==
    \/ QueueArrives
    \/ QueueDelivers

SpecQueue == Init /\ [][QueueNext]_vars

\* ------------------------------------------------------------------------
\* Properties
\* ------------------------------------------------------------------------
\* the domain entries of a menu, in order
DomainEntries(menu) == SelectSeq(menu, LAMBDA w : w \in AllDomains)

\* header first, then the AdminVM entries, then the rest strictly ascending
\* by name
MenuOrdered(menu) ==
    LET es == DomainEntries(menu)
    IN  /\ Len(menu) > 0
        /\ menu[1] = Header
        /\ \A i, j \in 1..Len(es) :
              i < j =>
                /\ klass(es[j]) = "AdminVM" => klass(es[i]) = "AdminVM"
                /\ (klass(es[i]) # "AdminVM" /\ klass(es[j]) # "AdminVM")
                      => StrLess(name(es[i]), name(es[j]))

\* the entry of vm stands immediately before the first entry of another qube
\* whose name exceeds its name, or after the last domain entry
PlacedByName(menu, vm) ==
    LET es == DomainEntries(menu)
        k == CHOOSE i \in 1..Len(es) : es[i] = vm
    IN  /\ \A j \in 1..(k - 1) :
              klass(es[j]) # "AdminVM" => ~StrLess(name(vm), name(es[j]))
        /\ \/ k = Len(es)
           \/ /\ klass(es[k + 1]) # "AdminVM"
              /\ StrLess(name(vm), name(es[k + 1]))

\* the eight lifecycle kinds and the state each stands for
EightKinds ==
    {"domain-pre-start", "domain-start", "domain-start-failed", "domain-paused",
     "domain-unpaused", "domain-shutdown", "domain-pre-shutdown",
     "domain-shutdown-failed"}

ExpectedState(kind) ==
    CASE kind = "domain-pre-start" -> "Transient"
      [] kind = "domain-start" -> "Running"
      [] kind = "domain-start-failed" -> "Halted"
      [] kind = "domain-paused" -> "Paused"
      [] kind = "domain-unpaused" -> "Running"
      [] kind = "domain-shutdown" -> "Halted"
      [] kind = "domain-pre-shutdown" -> "Transient"
      [] kind = "domain-shutdown-failed" -> "Running"

\* C1: in every reachable state the menu shows the header first, then the
\* AdminVM entries, then all other entries in strictly ascending order of
\* name. (Violated: refresh_all creates the entry of a live domain with the
\* empty event, which add_domain_item takes for a creation at startup and
\* appends at the end of the menu.)
C1_MenuAlwaysOrdered == MenuOrdered(tray_menu)

\* C2: when a domain-add event inserts a new entry of a qube that is no
\* AdminVM into an ordered menu, the entry is placed by its name and the menu
\* is ordered afterwards. (Violated: the scan ends at the separator, and
\* refresh_all may have put an entry behind it.)
C2_EventInsertKeepsOrder ==
    [][(/\ last'.op = "add"
        /\ ~last'.had
        /\ last'.vm \in DOMAIN menu_items'
        /\ klass(last'.vm) # "AdminVM"
        /\ MenuOrdered(tray_menu))
       => (/\ MenuOrdered(tray_menu')
           /\ PlacedByName(tray_menu', last'.vm))]_vars

\* C3: from every reachable state, an event of one of the eight table kinds
\* leaves the entry of its domain, if it has one, in the state the table
\* gives for the kind, whatever the entry's state and the live power state
\* were and whatever failure the environment produces, and get_power_state is
\* not called; for a kind outside the table and a domain of the registry it
\* is called.
C3_TableKindsFixState ==
    \A vm \in Domains :
    \A env \in Environments(vm) :
        /\ \A event \in EightKinds :
              LET r == update_domain_item(Tray, env, vm, event, FALSE)
              IN  /\ r.queries = 0
                  /\ vm \in DOMAIN r.items => r.items[vm].state = ExpectedState(event)
        /\ \A event \in UpdateKinds \ EightKinds :
              vm \in DOMAIN menu_items =>
                  update_domain_item(Tray, env, vm, event, FALSE).queries > 0

\* C3 witness: domain-start-failed was handled for a running domain of the
\* registry: its entry is Halted and no query was made
C3_Witness ==
    /\ last.op = "update"
    /\ last.event = "domain-start-failed"
    /\ last.had
    /\ last.vm \in live
    /\ power[last.vm] = "Running"
    /\ menu_items[last.vm].state = "Halted"
    /\ queries = 0

C6_LookupFailureRemoves ==
    last.op = "lookup-failed" =>
        /\ ~raised
        /\ last.vm \notin DOMAIN menu_items

\* C7: from every reachable state, remove_domain_item raises nothing,
\* changes nothing for an identity that has no entry, and run twice for the
\* same identity leaves the menu and the registry as run once.
C7_RemovalIdempotent ==
    \A vm \in Domains :
        LET once == remove_domain_item(Tray, vm)
            twice == remove_domain_item(once, vm)
        IN  /\ ~once.raised
            /\ ~twice.raised
            /\ twice = once
            /\ vm \notin DOMAIN once.items
            /\ vm \notin DOMAIN menu_items => once = Tray

\* C7 witness: domain-delete was handled for a destroyed domain that had no
\* entry
C7_Witness ==
    /\ last.op = "remove"
    /\ ~last.had
    /\ ~raised
    /\ last.vm \notin live
    /\ last.vm \notin DOMAIN menu_items

\* C8: from every reachable state, for a live domain that has no entry and
\* stays live, a lifecycle event leaves the same menu and the same registry
\* (membership, states, visibility, positions) as domain-add followed by
\* the same event, and unless the creation raises the domain has an entry.
C8_UpdateBeforeAdd ==
    \A vm \in live \ DOMAIN menu_items :
    \A env \in Environments(vm) :
    \A event \in EightKinds :
        env.gone = {} =>
            LET direct == update_domain_item(Tray, env, vm, event, FALSE)
                added == add_domain_item(Tray, env, "domain-add", vm)
                inOrder == update_domain_item(
                               [added EXCEPT !.raised = FALSE, !.queries = 0,
                                             !.effects = NoEffects],
                               env, vm, event, FALSE)
            IN  /\ direct.menu = inOrder.menu
                /\ DOMAIN direct.items = DOMAIN inOrder.items
                /\ \A x \in DOMAIN direct.items :
                      /\ direct.items[x].state = inOrder.items[x].state
                      /\ direct.items[x].visible = inOrder.items[x].visible
                /\ ~direct.raised => vm \in DOMAIN direct.items

\* C8 witness: a lifecycle event was handled for a live domain that had no
\* entry, and has created it with the state of the event
C8_Witness ==
    /\ last.op = "update"
    /\ last.event = "domain-paused"
    /\ ~last.had
    /\ last.vm \in live
    /\ last.vm \in DOMAIN menu_items
    /\ menu_items[last.vm].state = "Paused"
    /\ menu_items[last.vm].visible

\* C9: from every reachable state, an event for an identity that is neither
\* live nor in the registry changes nothing and raises nothing, and no
\* handler creates an entry for an identity that is not live.
C9_DeletedIsTerminal ==
    /\ \A vm \in Domains \ (live \cup DOMAIN menu_items) :
       \A env \in Environments(vm) :
          /\ \A event \in UpdateKinds :
                update_domain_item(Tray, env, vm, event, FALSE) = Tray
          /\ add_domain_item(Tray, env, "domain-add", vm) = Tray
    /\ \A vm \in Domains :
       \A env \in Environments(vm) :
          /\ \A event \in UpdateKinds :
                DOMAIN update_domain_item(Tray, env, vm, event, FALSE).items
                    \subseteq (DOMAIN menu_items \cup live)
          /\ DOMAIN add_domain_item(Tray, env, "domain-add", vm).items
                    \subseteq (DOMAIN menu_items \cup live)
    /\ \A env \in RefreshEnvironments :
          DOMAIN refresh_all(Tray, env).items \subseteq live

\* C9 witness: a lifecycle event was handled for an identity that was
\* neither live nor in the registry
C9_Witness ==
    /\ last.op = "update"
    /\ last.event \in EightKinds
    /\ ~last.had
    /\ ~raised
    /\ last.vm \notin live
    /\ last.vm \notin DOMAIN menu_items
    /\ power[last.vm] = "Halted"

\* C10 as claimed: after an event for a qube that is no AdminVM and had an
\* entry, the entry is hidden if and only if its state is Halted
C10_HiddenIffHalted ==
    (/\ last.op = "update"
     /\ last.had
     /\ klass(last.vm) # "AdminVM")
    => (menu_items[last.vm].visible <=> menu_items[last.vm].state # "Halted")

\* C10 amended: from every reachable state, an event for a qube that is no
\* AdminVM and has an entry leaves the entry hidden if and only if the
\* resolved state is Halted, provided the class of the qube can be read;
\* when it cannot, the entry is shown by domain-start and domain-pre-start,
\* hidden by domain-shutdown and keeps its visibility otherwise.
C10_HiddenIffHaltedWhenClassKnown ==
    \A vm \in DOMAIN menu_items :
    \A env \in Environments(vm) :
    \A event \in UpdateKinds :
        klass(vm) # "AdminVM" =>
            LET r == update_domain_item(Tray, env, vm, event, FALSE)
            IN  IF vm \notin env.noklass
                THEN r.items[vm].visible <=> r.items[vm].state # "Halted"
                ELSE r.items[vm].visible =
                        (IF event \in {"domain-start", "domain-pre-start"} THEN TRUE
                         ELSE IF event = "domain-shutdown" THEN FALSE
                         ELSE menu_items[vm].visible)

\* C10 witness: domain-start-failed was handled for a running qube that had
\* an entry: the entry is Halted and hidden
C10_Witness ==
    /\ last.op = "update"
    /\ last.event = "domain-start-failed"
    /\ last.had
    /\ klass(last.vm) # "AdminVM"
    /\ last.vm \in live
    /\ power[last.vm] = "Running"
    /\ menu_items[last.vm].state = "Halted"
    /\ ~menu_items[last.vm].visible

\* C11: in every reachable state the header is the first child of the menu
\* and every AdminVM entry is visible, whatever lifecycle events were
\* handled. (Violated: update_domain_item hides the entry on domain-shutdown
\* whatever the class of the domain.)
C11_AdminAlwaysVisible ==
    /\ Len(tray_menu) > 0
    /\ tray_menu[1] = Header
    /\ \A vm \in DOMAIN menu_items :
          klass(vm) = "AdminVM" => menu_items[vm].visible

\* C12: from every reachable state, refresh_all with no failing query
\* completes and leaves a registry whose identities are the live domains,
\* every entry in the live power state of its domain, and the menu, the
\* states and the visibility are those initialize_menu builds from a fresh
\* enumeration. (Violated: refresh_all appends the entries it creates, and
\* does not show an AdminVM entry that domain-shutdown has hidden.)
C12_RefreshRebuilds ==
    LET r == refresh_all(Tray, NoFailure)
        fresh == initialize_menu(NoFailure)
    IN  /\ ~r.raised
        /\ DOMAIN r.items = live
        /\ \A vm \in DOMAIN r.items : r.items[vm].state = power[vm]
        /\ r.menu = fresh.menu
        /\ DOMAIN r.items = DOMAIN fresh.items
        /\ \A vm \in DOMAIN r.items :
              /\ r.items[vm].state = fresh.items[vm].state
              /\ r.items[vm].visible = fresh.items[vm].visible

\* the live domains the pause aggregate counts: no AdminVM, no preload
Counted == {d \in live : klass(d) # "AdminVM" /\ d \notin preload}

\* at least one counted domain is running, and every running one is paused
PauseAggregate ==
    /\ \E d \in Counted : power[d] # "Halted"
    /\ \A d \in Counted : power[d] # "Halted" => power[d] = "Paused"

\* C13: in every reachable state have_running_and_all_are_paused, with no
\* failing query, is true if and only if at least one counted domain is
\* running and every running counted domain is paused. (Violated: a halted
\* counted domain makes it false.)
C13_AggregateAsSpecified ==
    have_running_and_all_are_paused(NoFailure) =
        (IF PauseAggregate THEN "True" ELSE "False")

\* A is a counted domain, and the other counted domains, of which there is
\* one at least, are halted
C14Scenario(A) ==
    /\ A \in Counted
    /\ Counted \ {A} # {}
    /\ \A B \in Counted \ {A} : power[B] = "Halted"

\* C14: with A and a halted B: when domain-paused is dispatched for the
\* paused A while no notification is out, exactly one notification is sent
\* and the latch is set; when domain-unpaused is dispatched for the running
\* A while the notification is out, it is withdrawn and the latch cleared
\* (so that pausing A again notifies again). (Violated: the halted B makes
\* the aggregate false, no notification is ever sent.)
C14_PauseNotifiesOnce ==
    [][(last'.op = "event" /\ C14Scenario(last'.vm))
       => /\ (/\ last'.event = "domain-paused"
              /\ power[last'.vm] = "Paused"
              /\ ~pause_notification_out)
             => (pause_notification_out' /\ effects'.emitted = 1)
          /\ (/\ last'.event = "domain-unpaused"
              /\ power[last'.vm] = "Running"
              /\ pause_notification_out)
             => (~pause_notification_out' /\ effects'.withdrawn = 1)]_vars

\* C15: at most one "all paused" notification is outstanding: a step sends
\* at most one, and only when none is outstanding; a step withdraws only
\* when one is outstanding; so a recheck while the notification is out sends
\* nothing.
C15_OneNotificationOutstanding ==
    [][/\ outstanding' <= 1
       /\ effects'.emitted > 0 => (outstanding = 0 /\ effects'.emitted = 1)
       /\ effects'.withdrawn > 0 => (outstanding = 1 /\ effects'.withdrawn = 1)
       /\ outstanding = 1 => effects'.emitted = 0]_vars

\* C15 witness: a recheck found the domains still all paused while the
\* notification was out, and sent nothing
C15_Witness ==
    /\ last.op = "event"
    /\ last.event \in {"domain-paused", "domain-start"}
    /\ effects.rechecks = 1
    /\ effects.emitted = 0
    /\ effects.withdrawn = 0
    /\ pause_notification_out
    /\ outstanding = 1
    /\ PauseAggregate

C18_UnpauseAllBestEffort ==
    last.op = "unpause-all"
    => /\ ~raised
       /\ {d \in DOMAIN menu_items \cap live :
              klass(d) # "AdminVM" /\ d \notin preload}
          \subseteq effects.attempted

\* C19: from every reachable state, setting shift_pressed to the value it
\* has changes nothing and runs no reconfiguration pass, and setting it
\* twice to the same value leaves what setting it once leaves, with one pass
\* if the value differed and none otherwise.
C19_SetterShortCircuits ==
    \A shift \in BOOLEAN :
        LET once == set_shift_pressed(Tray, shift)
            twice == set_shift_pressed(once, shift)
        IN  /\ twice = once
            /\ shift = shift_pressed => once = Tray
            /\ once.effects.passes = (IF shift = shift_pressed THEN 0 ELSE 1)
            /\ once.shift_pressed = shift

\* C19 witness: a shift key press came while shift_pressed was true (key
\* repeat) and ran no pass
C19_Witness ==
    /\ last.op = "key"
    /\ last.event = "KEY_PRESS"
    /\ shift_pressed
    /\ effects.passes = 0
    /\ \E vm \in DOMAIN menu_items : menu_items[vm].submenu.terminal = "modified"

\* C20: in every reachable state the action items of every entry agree with
\* shift_pressed: the RunTerminalItem is the root variant and the
\* ShutdownItem and RestartItem are the forced variants exactly if it is
\* true. (Violated: InternalMenu builds its ShutdownItem without reading
\* shift_pressed.)
C20_ActionsAgreeWithShift ==
    \A vm \in DOMAIN menu_items :
        LET submenu == menu_items[vm].submenu
        IN  /\ submenu.terminal \in {"absent", Variant(shift_pressed)}
            /\ submenu.shutdown \in {"absent", Variant(shift_pressed)}
            /\ submenu.restart \in {"absent", Variant(shift_pressed)}

\* C21: a key event or a click on the icon, which are the steps that assign
\* shift_pressed, leaves the menu's children and their order, the keys of
\* the registry, every entry's state, visibility, kind of submenu and
\* outdated indicator, and the latch and count of the paused notification
\* as they were, and raises nothing: only shift_pressed and the variants of
\* the action items change.
C21_ModifierFlipFrame ==
    [][last'.op \in {"key", "show-menu"} =>
          /\ ~raised'
          /\ tray_menu' = tray_menu
          /\ menu_keys' = menu_keys
          /\ DOMAIN menu_items' = DOMAIN menu_items
          /\ \A vm \in DOMAIN menu_items :
                /\ menu_items'[vm].state = menu_items[vm].state
                /\ menu_items'[vm].visible = menu_items[vm].visible
                /\ menu_items'[vm].outdated = menu_items[vm].outdated
                /\ menu_items'[vm].submenu.kind = menu_items[vm].submenu.kind
          /\ pause_notification_out' = pause_notification_out
          /\ outstanding' = outstanding]_vars

\* C21 witness: a key event has flipped the modifier to pressed while the
\* registry holds a hidden entry with a submenu and a visible entry whose
\* shutdown action is now the forced one
C21_Witness ==
    /\ last.op = "key"
    /\ effects.passes = 1
    /\ shift_pressed
    /\ \E vm \in DOMAIN menu_items :
          ~menu_items[vm].visible /\ menu_items[vm].submenu.kind # "None"
    /\ \E vm \in DOMAIN menu_items :
          menu_items[vm].visible /\ menu_items[vm].submenu.shutdown = "modified"

\* the status notifications an event of a kind is to produce
C22_Expected(event) ==
    IF event \in {"domain-start-failed", "domain-shutdown-failed"}
    THEN <<[event |-> event, priority |-> "HIGH"]>>
    ELSE IF event \in {"domain-pre-start", "domain-start", "domain-pre-shutdown",
                       "domain-shutdown", "domain-preload-dispvm-used"}
    THEN <<[event |-> event, priority |-> "NORMAL"]>>
    ELSE <<>>

\* C22: an event of any kind that was dispatched to its handlers, in any
\* order, and that carried the attributes its handlers look up, has sent
\* exactly one status notification when its kind is pre-start, start,
\* start-failed, pre-shutdown, shutdown, shutdown-failed or
\* preload-consumed, of priority HIGH for the two failed kinds and NORMAL
\* for the other five, and has sent none when it is of any other kind.
C22_OneStatusNotification ==
    (last.op = "event" /\ effects.missing = {}) =>
        effects.status = C22_Expected(last.event)

\* C22 witness: a domain-shutdown-failed event was dispatched and one status
\* notification of high priority was sent
C22_Witness ==
    /\ last.op = "event"
    /\ last.event = "domain-shutdown-failed"
    /\ ~raised
    /\ effects.status =
          <<[event |-> "domain-shutdown-failed", priority |-> "HIGH"]>>

\* C23: a lifecycle event that was dispatched to its handlers has been
\* processed without an exception, whether it came with the attributes the
\* daemon sends, with one more, or without one of them (a start-failed or
\* shutdown-failed event without "reason").
C23_AttributesTolerated ==
    (last.op = "event" /\ last.event \in DOMAIN STATE_DICTIONARY) => ~raised

\* the domain is one whose shutdown starts the scan
C24_IsTemplate(vm) ==
    klass(vm) = "TemplateVM" \/ vm \in template_for_dispvms

\* the domains of the registry, other than vm, that are running, have vm as
\* their template or as the template of their template, and have an
\* outdated volume
C24_Dependents(vm) ==
    {d \in DOMAIN menu_items \ {vm} :
        /\ d \in live
        /\ power[d] # "Halted"
        /\ \/ template[d] = vm
           \/ template[d] # 0 /\ template[template[d]] = vm
        /\ d \in outdated}

\* C24: from every reachable state, a domain-shutdown event for a live
\* domain, handled while no domain is destroyed or denied, sets the outdated
\* indicator of exactly the dependents of that domain when it is a template
\* or a template for disposables, and of no entry otherwise; the indicator
\* of every other entry but the domain's own stays as it was.
C24_ShutdownMarksDependents ==
    \A vm \in live :
        LET r == dispatch(Tray, NoFailure, vm, "domain-shutdown")
            expected == IF C24_IsTemplate(vm) THEN C24_Dependents(vm) ELSE {}
        IN  /\ ~r.raised
            /\ r.effects.marked = expected
            /\ \A d \in DOMAIN r.items \ {vm} :
                  r.items[d].outdated =
                      (d \in expected \/ menu_items[d].outdated)

\* C25: from every reachable state, the handler of a domain-shutdown event
\* for a live template, or template for disposables, during which another
\* domain is destroyed, raises nothing and sets the outdated indicator of
\* every dependent that remains.
C25_ScanSkipsVanished ==
    \A vm \in live :
    \A g \in live \ (Admins \cup {vm}) :
        C24_IsTemplate(vm) =>
            LET r == update_domain_item(Tray, Env({}, {}, {g}), vm,
                                        "domain-shutdown", FALSE)
            IN  /\ ~r.raised
                /\ \A d \in C24_Dependents(vm) \ {g} : r.items[d].outdated

\* a start or pre-start event for a live domain other than the AdminVM was
\* the last step
C26_Started ==
    /\ last.op = "event"
    /\ last.event \in {"domain-start", "domain-pre-start"}
    /\ klass(last.vm) # "AdminVM"
    /\ last.vm \in live

\* C26: when a domain-start or domain-pre-start event for a live domain
\* other than the AdminVM has been dispatched, the domain has a visible
\* entry whose outdated indicator is clear, and one status notification of
\* that kind was sent; when the next step is the dispatch of domain-shutdown
\* for the same domain, its entry is then Halted and hidden with the
\* indicator clear, and one shutdown notification was sent.
C26_StartThenShutdown ==
    [][/\ C26_Started' =>
            /\ last'.vm \in DOMAIN menu_items'
            /\ menu_items'[last'.vm].visible
            /\ ~menu_items'[last'.vm].outdated
            /\ effects'.status =
                  <<[event |-> last'.event, priority |-> "NORMAL"]>>
       /\ (/\ C26_Started
           /\ last'.op = "event"
           /\ last'.event = "domain-shutdown"
           /\ last'.vm = last.vm
           /\ last'.vm \in live') =>
            /\ last'.vm \in DOMAIN menu_items'
            /\ menu_items'[last'.vm].state = "Halted"
            /\ ~menu_items'[last'.vm].visible
            /\ ~menu_items'[last'.vm].outdated
            /\ effects'.status =
                  <<[event |-> "domain-shutdown", priority |-> "NORMAL"]>>]_vars

\* C26 witness: after two events, the second a domain-shutdown for a live
\* domain based on the template 2, the entry of that domain is Halted and
\* hidden, its indicator is clear and the shutdown notification was sent
C26_Witness ==
    /\ steps = 2
    /\ last.op = "event"
    /\ last.event = "domain-shutdown"
    /\ last.vm \in live
    /\ template[last.vm] = 2
    /\ menu_items[last.vm].state = "Halted"
    /\ ~menu_items[last.vm].visible
    /\ ~menu_items[last.vm].outdated
    /\ effects.status = <<[event |-> "domain-shutdown", priority |-> "NORMAL"]>>

\* the step leaves the keys of the registry and the state and visibility
\* of every entry as they were
C27_Frame ==
    /\ DOMAIN menu_items' = DOMAIN menu_items
    /\ tray_menu' = tray_menu
    /\ \A vm \in DOMAIN menu_items :
          /\ menu_items'[vm].state = menu_items[vm].state
          /\ menu_items'[vm].visible = menu_items[vm].visible

\* C27 as stated: no event of the kinds netvm, label, updates-available,
\* debug, guivm, gui, expert-mode or internal changes the state or the
\* visibility of an entry, or adds or removes an entry.
C27_PropertyEventsFrame ==
    [][(/\ last'.op = "event"
        /\ last'.event \in PropertyKinds \cup FeatureKinds \cup DebugKinds
                             \cup InternalKinds)
       => C27_Frame]_vars

\* C27, amended: no event of the kinds netvm, label, updates-available,
\* debug, guivm, gui or expert-mode changes the state or the visibility of
\* an entry, or adds or removes an entry. An event of the kind internal is
\* handled as an update with the live power state: a live domain has an
\* entry afterwards, in the live power state, and when it is not the
\* AdminVM the entry is hidden if that state is Halted and visible if not.
C27_PropertyEventsFrameButInternal ==
    [][/\ (/\ last'.op = "event"
           /\ last'.event \in PropertyKinds \cup FeatureKinds \cup DebugKinds)
          => C27_Frame
       /\ (/\ last'.op = "event"
           /\ last'.event \in InternalKinds
           /\ last'.vm \in live)
          => /\ last'.vm \in DOMAIN menu_items'
             /\ menu_items'[last'.vm].state = power[last'.vm]
             /\ klass(last'.vm) # "AdminVM" =>
                   menu_items'[last'.vm].visible = (power[last'.vm] # "Halted")]_vars

\* C27 witness: a label event was handled for a domain of the registry,
\* whose label was redrawn, while the registry holds a hidden entry
C27_Witness ==
    /\ last.op = "event"
    /\ last.event = "property-set:label"
    /\ <<last.vm, "label">> \in effects.redrawn
    /\ ~menu_items[last.vm].visible

\* C28: an event of a property, feature, debug or stats kind for a domain
\* that had no entry in the registry has raised nothing and has left the
\* domain without entry.
C28_UnknownIdentityIgnored ==
    (/\ last.op = "event"
     /\ last.event \in PropertyKinds \cup FeatureKinds \cup DebugKinds
                        \cup StatsKinds
     /\ ~last.had)
    => (~raised /\ last.vm \notin DOMAIN menu_items)

\* C29: the refresh pass of the tooltips is executed again and again: at
\* every moment of every behaviour the last step is a refresh pass, or one
\* comes later.
C29_PassRepeats == []<>(last.op = "tooltips")

\* C30: a refresh pass has recomputed the tooltip of every entry of the
\* registry that is visible, those for which the recomputation failed
\* included, and of no hidden entry, and has raised nothing.
C30_PassCoversVisible ==
    last.op = "tooltips" =>
        /\ ~raised
        /\ effects.recomputed =
              {vm \in DOMAIN menu_items : menu_items[vm].visible}
        /\ effects.failed \subseteq effects.recomputed

\* C30 witness: a pass has run in which the recomputation failed for the
\* first visible entry of the registry and was made for a later one, while
\* a third entry is hidden and was left alone
C30_Witness ==
    /\ last.op = "tooltips"
    /\ \E i, j \in 1..Len(menu_keys) :
          /\ i < j
          /\ menu_keys[i] \in effects.failed
          /\ menu_keys[j] \in effects.recomputed \ effects.failed
    /\ \E vm \in DOMAIN menu_items :
          ~menu_items[vm].visible /\ vm \notin effects.recomputed

\* C31 (as claimed): running _disconnect_signals once more after the
\* shutdown, when its handlers have been removed already, raises no error
\* and removes nothing. (Violated: remove_handler is handlers[event].remove
\* of a set, which raises KeyError for the first handler, already removed.)
C31_SecondRunRaisesNothing ==
    ~running =>
        /\ ~disconnect_signals(registered).raised
        /\ disconnect_signals(registered).handlers = registered

\* C40: the shutdown removes every handler register_events added, each
\* with the event kind and the dispatcher it was added for, raises nothing,
\* and no handler stays registered with either dispatcher after it; the
\* calls of _disconnect_signals name the pairs of register_events and no
\* other.
C40_RegistrationSymmetric ==
    /\ running => registered = register_events({})
    /\ ~running => registered = {}
    /\ last.op = "shutdown" => ~raised
    /\ {removals[i] : i \in 1..Len(removals)} = register_events({})
    /\ Len(removals) = Cardinality(register_events({}))

\* C40 witness: the application has shut down and no handler is registered
C40_Witness ==
    /\ last.op = "shutdown"
    /\ ~running
    /\ registered = {}
    /\ ~raised

\* the places of the menu that hold the entry of vm
C36_Places(vm) == {i \in 1..Len(tray_menu) : tray_menu[i] = vm}

\* C36: the registry and the menu stay consistent: every key of menu_items
\* has exactly one entry in the menu, every domain entry of the menu belongs
\* to a key of menu_items, and the keys are as many as the domain entries.
C36_RegistryMatchesMenu ==
    /\ \A vm \in DOMAIN menu_items : Cardinality(C36_Places(vm)) = 1
    /\ \A i \in 1..Len(tray_menu) :
          tray_menu[i] \in Domains => tray_menu[i] \in DOMAIN menu_items
    /\ Cardinality({i \in 1..Len(tray_menu) : tray_menu[i] \in Domains})
          = Cardinality(DOMAIN menu_items)

\* C36 witness: domain-delete has removed an entry, which is neither in the
\* registry nor in the menu, while another domain entry stays in both
C36_Witness ==
    /\ last.op = "remove"
    /\ last.had
    /\ last.vm \notin DOMAIN menu_items
    /\ C36_Places(last.vm) = {}
    /\ \E vm \in DOMAIN menu_items \ Admins : Cardinality(C36_Places(vm)) = 1

\* C37: domain-add for an identity that has an entry in the registry
\* changes nothing: the menu keeps its entries and their order, the
\* registry its keys, its states and its visibility, and nothing is raised.
C37_AddExistingIsNoop ==
    [][(last'.op = "add" /\ last'.had) =>
          /\ UNCHANGED <<tray_menu, menu_items, menu_keys>>
          /\ ~raised']_vars

\* C37 witness: domain-add came for a live identity with an entry
C37_Witness ==
    /\ last.op = "add"
    /\ last.had
    /\ last.vm \in live
    /\ last.vm \in DOMAIN menu_items
    /\ ~raised

\* C38 (as claimed): the separator and the item that opens the Qube Manager
\* come after every domain entry of the menu, whatever handler created the
\* entry. (Violated: refresh_all creates the entry of a new domain with the
\* event "", which add_domain_item takes for the creation at startup and
\* appends at the end of the menu.)
C38_FooterAfterDomains ==
    \A i, j \in 1..Len(tray_menu) :
        (tray_menu[i] \in Domains /\ tray_menu[j] \in {Separator, QubesManagerItem})
            => i < j

\* the actions of the submenu of an entry are in their plain variants
C39_Plain(item) ==
    /\ item.submenu.terminal \in {"plain", "absent"}
    /\ item.submenu.shutdown \in {"plain", "absent"}
    /\ item.submenu.restart \in {"plain", "absent"}

\* C39: right after show_menu the modifier flag is false and every
\* run-terminal, shutdown and restart action of every entry is in its
\* non-root, non-forced variant, whatever they were before.
C39_ShowMenuResets ==
    last.op = "show-menu" =>
        /\ ~shift_pressed
        /\ \A vm \in DOMAIN menu_items : C39_Plain(menu_items[vm])

\* C39 witness: show_menu found the flag set and ran the pass over the
\* entries, one of which has the actions of a running domain
C39_Witness ==
    /\ last.op = "show-menu"
    /\ effects.passes = 1
    /\ ~shift_pressed
    /\ \E vm \in DOMAIN menu_items :
          /\ menu_items[vm].submenu.kind = "Started"
          /\ menu_items[vm].submenu.terminal = "plain"
          /\ menu_items[vm].submenu.shutdown = "plain"
          /\ menu_items[vm].submenu.restart = "plain"

\* C33 (as claimed): whenever a shutdown request of a restart action is
\* accepted, the start command is issued in the end, for every activation of
\* the item. (Violated: give_up, set when the user declines the forced
\* shutdown, is never cleared; the next activation of the item returns from
\* its loop while the domain still runs and never starts it.)
C33_AcceptedLeadsToStart ==
    [](restart_item.accepted => <>restart_item.started)

\* C34: a shutdown action that was not forced and fails shows one dialog
\* and nothing else; the answer OK to a dialog issues one forced shutdown,
\* any other answer issues none, and either closes the dialog; a forced
\* shutdown that fails, issued by the action or by the answer, shows an
\* error and no dialog.
C34_OneEscalation ==
    [][LET s == shutdown_item
           t == shutdown_item'
       IN  /\ (last'.op = "shutdown-item" /\ t.failed /\ last'.event = "plain") =>
                 /\ t.calls = Append(s.calls, FALSE)
                 /\ t.prompts = s.prompts + 1
                 /\ t.dialogs = s.dialogs + 1
                 /\ t.errors = s.errors
           /\ (last'.op = "shutdown-item" /\ t.failed /\ last'.event = "forced") =>
                 /\ t.calls = Append(s.calls, TRUE)
                 /\ t.prompts = s.prompts
                 /\ t.dialogs = s.dialogs
                 /\ t.errors = s.errors + 1
           /\ (last'.op = "shutdown-question" /\ last'.event = "OK") =>
                 /\ t.calls = Append(s.calls, TRUE)
                 /\ t.prompts = s.prompts
                 /\ t.dialogs = s.dialogs - 1
                 /\ t.errors = s.errors + (IF t.failed THEN 1 ELSE 0)
           /\ (last'.op = "shutdown-question" /\ last'.event # "OK") =>
                 /\ t.calls = s.calls
                 /\ t.prompts = s.prompts
                 /\ t.dialogs = s.dialogs - 1
                 /\ t.errors = s.errors]_vars

\* C34 witness: a shutdown that was not forced failed, the user accepted
\* the forced shutdown, and that failed too
C34_Witness ==
    /\ last.op = "shutdown-question"
    /\ last.event = "OK"
    /\ shutdown_item.failed
    /\ shutdown_item.calls = <<FALSE, TRUE>>
    /\ shutdown_item.prompts = 1
    /\ shutdown_item.dialogs = 0
    /\ shutdown_item.errors = 1

\* C35 (as claimed): after detach-and-attach-to-new-disposable the device
\* is attached to no qube but the new disposable. (Violated: the action
\* detaches the device from the template of the disposable only, not from
\* the qubes it is attached to.)
C35_OnlyNewDisposable ==
    last.op = "detach-attach-disposable" =>
        device.attachments \subseteq {NumDeviceVMs + device.disposables}

\* C32: the events are reconciled one at a time in the order of their
\* arrival, none dropped, repeated or merged with another: the events
\* delivered followed by those pending are the events arrived, and a
\* delivery takes the first pending event alone and leaves the entry of its
\* domain in the state of that event, Halted hidden and any other shown,
\* whatever the domain has done since; so a start followed by a shutdown
\* shows the entry Running and then hides it Halted.
C32_OneAtATimeInOrder ==
    [][/\ queue'.arrived = queue'.delivered \o queue'.pending
       /\ last'.op = "deliver" =>
             LET e == Head(queue.pending)
             IN  /\ queue'.pending = Tail(queue.pending)
                 /\ queue'.delivered = Append(queue.delivered, e)
                 /\ ~raised'
                 /\ e[1] \in DOMAIN menu_items'
                 /\ menu_items'[e[1]].state = STATE_DICTIONARY[e[2]]
                 /\ menu_items'[e[1]].visible = (STATE_DICTIONARY[e[2]] # "Halted")
                 /\ \A vm \in DOMAIN menu_items \ {e[1]} :
                       /\ vm \in DOMAIN menu_items'
                       /\ menu_items'[vm].state = menu_items[vm].state
                       /\ menu_items'[vm].visible = menu_items[vm].visible]_vars

\* C32 witness: a start and a shutdown of one domain arrived before either
\* was delivered; both are delivered, in that order, and the entry is
\* Halted and hidden while a later event still waits
C32_Witness ==
    /\ last.op = "deliver"
    /\ last.event = "domain-shutdown"
    /\ Len(queue.delivered) = 2
    /\ queue.delivered[1] = <<last.vm, "domain-start">>
    /\ queue.delivered[2] = <<last.vm, "domain-shutdown">>
    /\ Len(queue.pending) = 1
    /\ menu_items[last.vm].state = "Halted"
    /\ ~menu_items[last.vm].visible

====
